---- MODULE Spec2Model ----
(***************************************************************************)
(* A model of tracing-tree's HierarchicalLayer (src/src/lib.rs) and of its *)
(* text renderer (src/src/format.rs).                                      *)
(*                                                                         *)
(* Spec models the layer: the span registry the layer reads, the per-span  *)
(* Data extension, the Buffers behind the Mutex, the thread-local          *)
(* recursion flag, and the three callbacks on_new_span, on_event and       *)
(* on_close, executed by several threads.  One step of a callback is one   *)
(* call of write_span_info (or the event's flush), that is one write to    *)
(* the sink; user code that runs inside a callback (the writer, the timer, *)
(* Debug impls) may call back into the layer on the same thread.           *)
(***************************************************************************)
EXTENDS Naturals, Sequences, FiniteSets, TLC

\* ------------------------------------------------------------------ bounds
\* Spec: one thread, MaxSpans spans.  SpecThreads: NThreads threads,
\* MaxThreadSpans spans.
MaxSpans == 3
NThreads == 2
MaxThreadSpans == 2
\* SpecFair: one thread and up to MaxFairSpans spans.
MaxFairSpans == 2
\* SpecText: units at depth 0..MaxIndent with an indent width of
\* 0..MaxIndentAmount, a wraparound of 0..MaxWraparound (or the default) and
\* a content of up to MaxContent characters.
MaxIndent == 3
MaxIndentAmount == 3
MaxWraparound == 3
MaxContent == 2
\* SpecTime: elapsed times of up to MaxSecs seconds.
MaxSecs == 125
\* SpecFields: lists of up to MaxFields fields.
MaxFields == 3

Spans == 1..MaxSpans
Threads == 1..NThreads

\* Option::None for a span id, and "no thread" for the Mutex.
NoSpan == 0
NoThread == 0

VARIABLES
    config,        \* Config: deferred_spans, span_retrace, verbose_entry, verbose_exit
    created,       \* number of span ids the registry has handed out
    parent,        \* registry: parent link of each span (NoSpan for a root)
    live,          \* registry: the spans ctx.span(id) resolves
    hasData,       \* span extensions: a Data record is present
    data,          \* Data.start and Data.kvs
    written,       \* Data.written
    current_span,  \* Buffers.current_span
    lock,          \* the thread holding bufs: Mutex<Buffers>, or NoThread
    poisoned,      \* the Mutex was poisoned by a panic of its holder
    is_empty,      \* the thread-local IS_EMPTY flag of is_recursive
    frame,         \* per thread: the callback it executes
    sink,          \* what reached the writer since the lock was last taken
    lastEvent,     \* the span of the previous callback, if it rendered an event
    shown,         \* per live span: some line of it has reached the sink
    opened,        \* per live span: an Open banner of it has reached the sink
    evented,       \* per live span: an event was rendered in it or below it
    unwound,       \* the callback the last panic unwound, and what panicked
    layout,        \* Config: indent_lines, indent_amount, wraparound, prefix()
    current_buf,   \* Buffers.current_buf
    indent_buf,    \* Buffers.indent_buf
    unit,          \* the indent and style of the unit being rendered
    text_pc,       \* where the rendering of the unit stands
    writer,        \* the string flush_current_buf last handed to the writer
    elapsed,       \* a Duration: data.start.elapsed()
    timestamp,     \* what format_timestamp made of it
    kvs,           \* the fields of a span (Data.kvs) or of an event, in order
    formatter,     \* which code formats them: print_kvs or FmtEvent
    visited,       \* FmtEvent: the number of fields record_debug has visited
    comma,         \* FmtEvent.comma
    tracing_log,   \* whether the build has the feature "tracing-log"
    fields_buf     \* the buffer the fields are written to

layerVars == <<config, created, parent, live, hasData, data, written, current_span,
               lock, poisoned, is_empty, frame, sink, lastEvent, shown, opened,
               evented, unwound>>

textVars == <<layout, current_buf, indent_buf, unit, text_pc, writer>>

timeVars == <<elapsed, timestamp>>

fieldVars == <<kvs, formatter, visited, comma, tracing_log, fields_buf>>

vars == <<config, created, parent, live, hasData, data, written, current_span, lock,
          poisoned, is_empty, frame, sink, lastEvent, shown, opened, evented,
          unwound, layout, current_buf, indent_buf, unit, text_pc, writer,
          elapsed, timestamp, kvs, formatter, visited, comma, tracing_log,
          fields_buf>>

\* What the callbacks, the rendering of a unit, the formatting of an elapsed
\* time and the formatting of fields leave alone.
nonLayerVars == <<textVars, timeVars, fieldVars>>
nonTextVars == <<layerVars, timeVars, fieldVars>>
nonTimeVars == <<layerVars, textVars, fieldVars>>
nonFieldVars == <<layerVars, textVars, timeVars>>

registryVars == <<created, parent, live>>
historyVars == <<sink, lastEvent, shown, opened, evented, unwound>>

\* ------------------------------------------------------------ span paths

\* scope_path: the ancestors of a span, root first, the span included.
RECURSIVE scope_path(_)
scope_path(s) ==
    IF s = NoSpan THEN <<>> ELSE Append(scope_path(parent[s]), s)

\* write_span_info: indent = scope_path(span).skip(1).count()
Depth(s) == Len(scope_path(s)) - 1

\* DifferenceIter::next with a fused left iterator that stops at the first
\* exhausted side: the mutant of DifferenceIter (zip-like truncation).
RECURSIVE DifferenceIterZip(_, _)
DifferenceIterZip(left, right) ==
    IF right = <<>> \/ left = <<>> THEN <<>>
    ELSE LET rest == DifferenceIterZip(Tail(left), Tail(right))
         IN  IF Head(left) # Head(right) THEN <<Head(right)>> \o rest ELSE rest

\* DifferenceIter: runs left and right side by side and yields the items of
\* right that differ from the item of left at the same position (all of
\* them once left is exhausted).
RECURSIVE DifferenceIter(_, _)
DifferenceIter(left, right) ==
    IF right = <<>> THEN <<>>
    ELSE LET l    == IF left = <<>> THEN NoSpan ELSE Head(left)
             rest == DifferenceIter(IF left = <<>> THEN <<>> ELSE Tail(left),
                                    Tail(right))
         IN  IF l # Head(right) THEN <<Head(right)>> \o rest ELSE rest

\* ------------------------------------------------------------ operations

\* One pending call of write_span_info (or the event's flush), with the
\* assignments the code makes right before and right after it.
Op(mark, setBefore, span, mode, verbose, setAfter) ==
    [mark |-> mark, setBefore |-> setBefore, span |-> span, mode |-> mode,
     verbose |-> verbose, setAfter |-> setAfter]

Unit(span, mode, verbose, first) ==
    [span |-> span, mode |-> mode, verbose |-> verbose, first |-> first]

IdleFrame ==
    [pc |-> "idle", kind |-> "none", span |-> NoSpan, ops |-> <<>>,
     out |-> <<>>, old |-> NoSpan, old_path |-> <<>>, recon |-> FALSE,
     nested |-> FALSE, timed |-> 0, blocked |-> FALSE]

\* The extensions of a span hold no Data.
NoData == [start |-> 0, kvs |-> <<>>]

\* The fields of the attributes span id is created with.
AttrsOf(id) ==
    IF id % 2 = 1 THEN <<[name |-> "message", value |-> "1"]>> ELSE <<>>

\* Data::new: start is Instant::now() (the spans are created in the order
\* of their ids) and kvs is what attrs.record() pushes.
DataNew(id) == [start |-> id, kvs |-> AttrsOf(id)]

\* No callback has panicked.
NoPanic == [cause |-> "none", thread |-> NoThread, frame |-> IdleFrame]

\* ------------------------------------------------------------------ text
\* A text is a sequence of characters.  Each glyph is one character, named
\* after its constant in format.rs.

LINE_VERT == "VERT"
LINE_HORIZ == "HORIZ"
LINE_BRANCH == "BRANCH"
LINE_CLOSE == "CLOSE"
LINE_CLOSE2 == "CLOSE2"
LINE_OPEN == "OPEN"
LINE_OPEN2 == "OPEN2"

NewLine == "\n"
Space == " "

\* The default of Config::wraparound, usize::MAX, as the largest integer of
\* the model checker: above every depth, so that no unit wraps around.
UsizeMax == 2147483647

\* SpanMode.
SpanMode(mode, verbose) == [mode |-> mode, verbose |-> verbose]

SpanModes ==
    {SpanMode("PreOpen", FALSE), SpanMode("PostClose", FALSE),
     SpanMode("Event", FALSE)}
    \union {SpanMode(m, v) : m \in {"Open", "Close", "Retrace"}, v \in BOOLEAN}

\* Config::default, as far as indent_current reads it; the prefix is empty
\* because render_thread_ids and render_thread_names are off.
DefaultLayout ==
    [indent_lines |-> FALSE, indent_amount |-> 2, wraparound |-> UsizeMax,
     prefix |-> <<>>]

\* Config::prefix: empty, or the thread's id or name.
Prefixes == {<<>>, <<"1">>}

\* The configurations the builder accepts.
Layouts ==
    [indent_lines : BOOLEAN, indent_amount : 0..MaxIndentAmount,
     wraparound : (0..MaxWraparound) \union {UsizeMax}, prefix : Prefixes]

NoUnit ==
    [indent |-> 0, style |-> SpanMode("Event", FALSE), content |-> <<>>,
     scope |-> 0]

\* The texts of up to n characters a span or an event is formatted to.
RECURSIVE Contents(_)
Contents(n) ==
    IF n = 0 THEN {<<>>}
    ELSE Contents(n - 1)
         \union {Append(c, x) : c \in Contents(n - 1), x \in {"x", NewLine}}

\* n times the character c.
Repeat(c, n) == [i \in 1..n |-> c]

\* The number of iterations of "for _ in a..b".
RangeLen(a, b) == IF b > a THEN b - a ELSE 0

\* str::lines: the text between line feeds; a final line feed ends the last
\* line and starts no new one.
RECURSIVE lines(_)
lines(block) ==
    IF block = <<>> THEN <<>>
    ELSE LET feeds == {i \in 1..Len(block) : block[i] = NewLine}
         IN  IF feeds = {} THEN <<block>>
             ELSE LET k == CHOOSE i \in feeds : \A j \in feeds : i <= j
                  IN  <<SubSeq(block, 1, k - 1)>>
                      \o lines(SubSeq(block, k + 1, Len(block)))

\* Lines pushed without their line feed: the mutant of PushLines.
RECURSIVE PushLinesUnterminated(_, _)
PushLinesUnterminated(ls, s) ==
    IF ls = <<>> THEN <<>>
    ELSE s \o Head(ls) \o PushLinesUnterminated(Tail(ls), s)

\* "for line in lines { buf.push_str(&s); buf.push_str(line);
\* buf.push('\n') }".
RECURSIVE PushLines(_, _)
PushLines(ls, s) ==
    IF ls = <<>> THEN <<>>
    ELSE s \o Head(ls) \o <<NewLine>> \o PushLines(Tail(ls), s)

\* indent_block_with_lines at indent 0: "we only need to print open/close".
RootGlyph(style) ==
    CASE style.mode \in {"Open", "Retrace"} -> <<LINE_OPEN>>
      [] style.mode = "Close" -> <<LINE_CLOSE>>
      [] OTHER -> <<>>

\* A verbose connector that draws both glyphs at every indent width: the
\* mutant of VerboseBranch.
VerboseBranchUndegraded(indent_amount, first, last) ==
    <<Space>>
    \o Repeat(Space, RangeLen(1, indent_amount \div 2))
    \o <<first>>
    \o Repeat(LINE_HORIZ, RangeLen(indent_amount \div 2, indent_amount - 1))
    \o <<last>>

\* The verbose connector of indent_block_with_lines, between the glyphs
\* first and last.
VerboseBranch(indent_amount, first, last) ==
    <<Space>>
    \o Repeat(Space, RangeLen(1, indent_amount \div 2))
    \o (IF indent_amount > 1 THEN <<first>> ELSE <<>>)
    \o Repeat(LINE_HORIZ, RangeLen(indent_amount \div 2, indent_amount - 1))
    \o (IF indent_amount > 1 THEN <<last>> ELSE <<Space>>)

\* The branch glyph and horizontal glyphs before every first line: the
\* mutant of Branch.
BranchOfEvent(style, indent_amount) ==
    <<LINE_BRANCH>> \o Repeat(LINE_HORIZ, indent_amount)

\* indent_block_with_lines, "draw branch": what precedes the first line.
Branch(style, indent_amount) ==
    CASE style.mode = "PreOpen" ->
            <<LINE_OPEN2>>
            \o Repeat(LINE_HORIZ, RangeLen(1, indent_amount \div 2))
            \o <<LINE_OPEN>>
      [] style.mode \in {"Open", "Retrace"} /\ ~style.verbose ->
            <<LINE_OPEN2>>
            \o Repeat(LINE_HORIZ, RangeLen(1, indent_amount))
            \o <<LINE_OPEN>>
      [] style.mode \in {"Open", "Retrace"} /\ style.verbose ->
            VerboseBranch(indent_amount, LINE_OPEN2, LINE_OPEN)
      [] style.mode = "Close" /\ ~style.verbose ->
            <<LINE_CLOSE2>>
            \o Repeat(LINE_HORIZ, RangeLen(1, indent_amount))
            \o <<LINE_CLOSE>>
      [] style.mode = "Close" /\ style.verbose ->
            VerboseBranch(indent_amount, LINE_CLOSE2, LINE_CLOSE)
      [] style.mode = "PostClose" ->
            <<LINE_CLOSE2>>
            \o Repeat(LINE_HORIZ, RangeLen(1, indent_amount \div 2))
            \o <<LINE_CLOSE>>
      [] style.mode = "Event" ->
            <<LINE_BRANCH>>
            \o Repeat(LINE_HORIZ, RangeLen(0, indent_amount - 1))

\* indent_block_with_lines, "add the rest of the indentation": what the
\* indent string s grows by for the lines after the first.
Continuation(style, indent_amount) ==
    (CASE style.mode \in {"Open", "Retrace"} -> <<Space, Space>>
       [] style.mode = "Close" -> <<Space>>
       [] OTHER -> <<>>)
    \o <<LINE_VERT>>
    \o Repeat(Space, indent_amount)

\* indent_block_with_lines: the text it appends to buf.
indent_block_with_lines(ls, indent, indent_amount, prefix, style) ==
    LET indent_spaces == indent * indent_amount
        s == prefix \o Repeat(Space, indent_spaces - indent_amount)
    IN  IF ls = <<>> THEN <<>>
        ELSE IF indent_spaces = 0
        THEN PushLines(ls, prefix
                           \o (IF indent = 0 THEN RootGlyph(style) ELSE <<>>))
        ELSE s \o Branch(style, indent_amount) \o ls[1] \o <<NewLine>>
             \o PushLines(Tail(ls), s \o Continuation(style, indent_amount))

\* An indent_block that counts its spaces after "indent += 1": the mutant
\* of indent_block.
indent_block_incremented(block, indent, indent_amount, indent_lines, prefix, style) ==
    LET ls == lines(block)
        deeper == IF style.mode \in {"PreOpen", "PostClose"}
                  THEN indent + 1 ELSE indent
        indent_str == Repeat(Space, deeper * indent_amount)
    IN  IF indent_lines
        THEN indent_block_with_lines(ls, deeper, indent_amount, prefix, style)
        ELSE IF ls = <<>> THEN <<>>
        ELSE PushLines(<<ls[1]>>, prefix \o <<Space>> \o indent_str)
             \o PushLines(Tail(ls), prefix \o <<Space>> \o indent_str
                                    \o <<Space, Space>>)

\* indent_block: the text it appends to buf.
indent_block(block, indent, indent_amount, indent_lines, prefix, style) ==
    LET ls == lines(block)
        indent_spaces == indent * indent_amount
        deeper == IF style.mode \in {"PreOpen", "PostClose"}
                  THEN indent + 1 ELSE indent
        indent_str == Repeat(Space, indent_spaces)
    IN  IF indent_lines
        THEN indent_block_with_lines(ls, deeper, indent_amount, prefix, style)
        ELSE IF ls = <<>> THEN <<>>
        ELSE PushLines(<<ls[1]>>, prefix \o <<Space>> \o indent_str)
             \o PushLines(Tail(ls), prefix \o <<Space>> \o indent_str
                                    \o <<Space, Space>>)

\* A wraparound line at the root too: the mutant of WrapMarker.
WrapMarkerAtRoot(indent, cfg, glyph) ==
    IF (indent + 1) % cfg.wraparound = 0
    THEN cfg.prefix
         \o Repeat(LINE_HORIZ, (indent % cfg.wraparound) * cfg.indent_amount)
         \o <<glyph, NewLine>>
    ELSE <<>>

\* indent_current, "Render something when wraparound occurs": the line of
\* the wraparound, ended by glyph.
WrapMarker(indent, cfg, glyph) ==
    IF indent > 0 /\ (indent + 1) % cfg.wraparound = 0
    THEN cfg.prefix
         \o Repeat(LINE_HORIZ, (indent % cfg.wraparound) * cfg.indent_amount)
         \o <<glyph, NewLine>>
    ELSE <<>>

\* Buffers::indent_current for a wraparound other than 0: the two buffers
\* after it.
indent_current(cur, ind, indent, cfg, style) ==
    LET block  == IF cfg.indent_lines THEN Append(cur, NewLine) ELSE cur
        before == IF cfg.indent_lines /\ style.mode \in {"Close", "PostClose"}
                  THEN WrapMarker(indent, cfg, LINE_OPEN) ELSE <<>>
        after  == IF cfg.indent_lines /\ style.mode \in {"PreOpen", "Open"}
                  THEN WrapMarker(indent, cfg, LINE_CLOSE) ELSE <<>>
    IN  [current_buf |->
            ind \o before
            \o indent_block(block, indent % cfg.wraparound, cfg.indent_amount,
                            cfg.indent_lines, cfg.prefix, style)
            \o after,
         indent_buf |-> <<>>]

\* ------------------------------------------------------------ elapsed time
\* A Duration is whole seconds and the nanoseconds of the second begun.

NanosPerMilli == 1000000

\* Nanoseconds at both ends of a second and around a millisecond.
NanosSamples == {0, 1, 999999, 1000000, 1999999, 499999999, 500000000,
                 999000000, 999999999}

Durations == [secs : 0..MaxSecs, nanos : NanosSamples]

NoTimestamp == [n |-> 0, unit |-> "", width |-> 0]

\* The number of decimal digits of n.
RECURSIVE Digits(_)
Digits(n) == IF n < 10 THEN 1 ELSE 1 + Digits(n \div 10)

\* format!("{n:>3}"): n right-aligned in at least 3 columns.
Width(n) == IF Digits(n) < 3 THEN 3 ELSE Digits(n)

\* Milliseconds rounded to the nearest: the mutant of as_millis.
as_millis_rounded(e) ==
    e.secs * 1000 + (e.nanos + NanosPerMilli \div 2) \div NanosPerMilli

\* Duration::as_millis and Duration::as_secs: whole units, rounded down.
as_millis(e) == e.secs * 1000 + e.nanos \div NanosPerMilli

as_secs(e) == e.secs

\* time.rs format_timestamp: the number and the unit it writes.
format_timestamp(e) ==
    LET millis == as_millis(e)
        secs == as_secs(e)
        n == IF millis < 1000 THEN millis
             ELSE IF secs < 60 THEN secs ELSE secs \div 60
    IN  [n |-> n,
         unit |-> IF millis < 1000 THEN "ms"
                  ELSE IF secs < 60 THEN "s " ELSE "m ",
         width |-> Width(n)]

\* ------------------------------------------------------------------ fields
\* A field is a name and the text of its value ("{:?}" of the value: Data
\* stores it so, FmtEvent writes it so). Formatted text is a sequence of
\* pieces: names, values and the literals "=", ", ", "," and " ".

FieldNames == {"message", "a", "log.target"}

FieldValues == {"1", "2"}

Fields == [name : FieldNames, value : FieldValues]

\* The lists of up to n fields; a callsite names each of its fields once.
FieldLists(n) ==
    {l \in UNION {[1..k -> Fields] : k \in 0..n} :
        \A i, j \in DOMAIN l : l[i].name = l[j].name => i = j}

\* name.starts_with("log.")
IsLogField(name) == name = "log.target"

\* lib.rs print_kvs: what it writes for the fields l, in order.
print_kvs(l) ==
    LET Rest[i \in 1..(Len(l) + 1)] ==
            IF i > Len(l) THEN <<>>
            ELSE <<", ", l[i].name, "=", l[i].value>> \o Rest[i + 1]
    IN  IF l = <<>> THEN <<>>
        ELSE (IF l[1].name = "message" THEN <<l[1].value>>
              ELSE <<l[1].name, "=", l[1].value>>) \o Rest[2]

\* format.rs FmtEvent::record_debug: what it writes for the field f.
record_debug(f, withComma, feature) ==
    LET sep == IF withComma THEN <<",">> ELSE <<>> IN
    IF f.name = "message" THEN sep \o <<" ", f.value>>
    ELSE IF feature /\ IsLogField(f.name) THEN <<>>
    ELSE sep \o <<" ", f.name, "=", f.value>>

\* Whether record_debug sets self.comma for the field f.
SetsComma(f, feature) == ~(feature /\ IsLogField(f.name))

\* ---------------------------------------------------------------- callbacks

\* A flag shared by all threads, taken while the Mutex is held: the
\* mutant of IsEmptyFlag.
IsEmptyFlagShared(t) == is_empty[t] /\ lock = NoThread

\* thread_local! IS_EMPTY: each thread has its own flag.
IsEmptyFlag(t) == is_empty[t]

\* A guard that is always granted: the mutant of is_recursive.
is_recursive_always(t) == TRUE

\* is_recursive: compare_exchange(true, false) on the thread-local flag;
\* TRUE when a guard is returned.
is_recursive(t) == IsEmptyFlag(t)

\* The mode of a retraced span: Retrace when Data.written was set.
RetraceMode(was_written) == IF was_written THEN "Retrace" ELSE "Open"

\* A parent line whether or not pre_open was asked for: the mutant of
\* WithPreOpen.
WithPreOpenUnasked(i, pre_open, span) == i = 0 /\ parent[span] # NoSpan

\* write_retrace_span: "Print the parent of the first span".
WithPreOpen(i, pre_open, span) == i = 0 /\ pre_open /\ parent[span] # NoSpan

\* A loop that reads the flag and leaves it as it is: the mutant of
\* MarkOf.
MarkOfNone(span) == NoSpan

\* write_retrace_span: "Mark traversed spans as *written*"; the span whose
\* Data the mem::replace is made on.
MarkOf(span) == span

\* A loop that forgets which span is the first one, so that every span with
\* a parent gets a parent line and a verbose banner: the mutant of
\* RetraceOps.
RECURSIVE RetraceOpsEverySpan(_, _, _)
RetraceOpsEverySpan(path, i, pre_open) ==
    IF path = <<>> THEN <<>>
    ELSE LET span    == Head(path)
             was     == hasData[span] /\ written[span]
             withPre == WithPreOpen(0, pre_open, span)
             banner  == Op(IF withPre THEN NoSpan ELSE MarkOf(span), NoSpan,
                           span, RetraceMode(was), withPre, NoSpan)
             pre     == Op(MarkOf(span), NoSpan, parent[span], "PreOpen", FALSE,
                           NoSpan)
         IN  (IF withPre THEN <<pre, banner>> ELSE <<banner>>)
             \o RetraceOpsEverySpan(Tail(path), i + 1, pre_open)

\* The loop of write_retrace_span over the spans DifferenceIter yields.
RECURSIVE RetraceOps(_, _, _)
RetraceOps(path, i, pre_open) ==
    IF path = <<>> THEN <<>>
    ELSE LET span    == Head(path)
             was     == hasData[span] /\ written[span]
             withPre == WithPreOpen(i, pre_open, span)
             banner  == Op(IF withPre THEN NoSpan ELSE MarkOf(span), NoSpan,
                           span, RetraceMode(was), withPre, NoSpan)
             pre     == Op(MarkOf(span), NoSpan, parent[span], "PreOpen", FALSE,
                           NoSpan)
         IN  (IF withPre THEN <<pre, banner>> ELSE <<banner>>)
             \o RetraceOps(Tail(path), i + 1, pre_open)

\* An old path that is always empty, as if no span had been in focus: the
\* mutant of OldPath.
OldPathForgotten(old) == <<>>

\* write_retrace_span: old_path, the scope of the span current_span named,
\* empty when there is none or ctx.span() no longer resolves it.
OldPath(old) ==
    IF old # NoSpan /\ old \in live THEN scope_path(old) ELSE <<>>

\* A retrace that visits the new span alone, not its ancestors: the mutant
\* of NewPath.
NewPathLeaf(old, new_span) ==
    IF new_span = NoSpan THEN <<>> ELSE <<new_span>>

\* write_retrace_span: "Print the path from the common base of the two
\* spans".
NewPath(old, new_span) == DifferenceIter(OldPath(old), scope_path(new_span))

\* A retrace that takes a span that no longer resolves for "nothing to
\* do": the mutant of write_retrace_span.
write_retrace_span_skip_dead(old, new_span, pre_open) ==
    IF old = new_span \/ (old # NoSpan /\ old \notin live) THEN <<>>
    ELSE RetraceOps(DifferenceIter(OldPath(old), scope_path(new_span)), 0,
                    pre_open)

\* write_retrace_span, after current_span.replace(new_span): the pending
\* writes for old_span_id = old and new_span.
write_retrace_span(old, new_span, pre_open) ==
    IF old = new_span THEN <<>>
    ELSE RetraceOps(NewPath(old, new_span), 0, pre_open)

\* An on_event that writes the event line first and reconciles after it:
\* the mutant of EventOps.
EventOpsEventFirst(s) ==
    <<Op(NoSpan, NoSpan, s, "Event", FALSE, NoSpan)>>
    \o (IF s # NoSpan /\ (config.span_retrace \/ config.deferred_spans)
        THEN write_retrace_span(current_span, s, config.verbose_entry)
        ELSE <<>>)

\* on_event below the lock: the retrace, then the event line.
EventOps(s) ==
    (IF s # NoSpan /\ (config.span_retrace \/ config.deferred_spans)
     THEN write_retrace_span(current_span, s, config.verbose_entry)
     ELSE <<>>)
    \o <<Op(NoSpan, NoSpan, s, "Event", FALSE, NoSpan)>>

\* on_new_span below the lock (deferred_spans returned before it).
NewSpanOps(s) ==
    IF config.span_retrace
    THEN write_retrace_span(current_span, s, config.verbose_entry)
    ELSE (IF config.verbose_entry /\ parent[s] # NoSpan
          THEN <<Op(NoSpan, NoSpan, parent[s], "PreOpen", FALSE, NoSpan)>>
          ELSE <<>>)
         \o <<Op(NoSpan, s, s, "Open", config.verbose_entry, NoSpan)>>

\* A close that only looks for the Data, not at its written flag: the
\* mutant of CloseSuppressed.
CloseSuppressedNoData(s) == config.deferred_spans /\ ~hasData[s]

\* on_close: the span was not printed, so no exit is printed.
CloseSuppressed(s) ==
    config.deferred_spans /\ ~(hasData[s] /\ written[s])

\* A close that keeps the closed span in focus: the mutant of CloseFocus.
CloseFocusSelf(s) == s

\* on_close: "bufs.current_span = Some(parent_span.id())" when the span has
\* a parent, no assignment (NoSpan) when it has none.
CloseFocus(s) == parent[s]

\* A parent line after every close: the mutant of PostCloseOps.
PostCloseOpsAlways(s) ==
    <<Op(NoSpan, NoSpan, parent[s], "PostClose", FALSE, NoSpan)>>

\* on_close: "Consider parent as entered", for a span s that has a parent.
PostCloseOps(s) ==
    IF config.verbose_exit
    THEN <<Op(NoSpan, NoSpan, parent[s], "PostClose", FALSE, NoSpan)>>
    ELSE <<>>

\* on_close below the lock.
CloseOps(s) ==
    IF CloseSuppressed(s) THEN <<>>
    ELSE IF parent[s] = NoSpan
    THEN <<Op(NoSpan, NoSpan, s, "Close", config.verbose_exit, CloseFocus(s))>>
    ELSE <<Op(NoSpan, NoSpan, s, "Close", config.verbose_exit, CloseFocus(s))>>
         \o PostCloseOps(s)

\* ----------------------------------------------------------------- state

\* Buffers::new, and no unit being rendered.
NoText ==
    /\ current_buf = <<>>
    /\ indent_buf = <<>>
    /\ unit = NoUnit
    /\ text_pc = "idle"
    /\ writer = <<>>

\* No elapsed time being formatted.
NoTime ==
    /\ elapsed = [secs |-> 0, nanos |-> 0]
    /\ timestamp = NoTimestamp

\* No fields being formatted.
NoFields ==
    /\ kvs = <<>>
    /\ formatter = "none"
    /\ visited = 0
    /\ comma = FALSE
    /\ tracing_log = FALSE
    /\ fields_buf = <<>>

\* The registry, the lock and the threads before the first callback.
NoCallback ==
    /\ created = 0
    /\ parent = [s \in Spans |-> NoSpan]
    /\ live = {}
    /\ hasData = [s \in Spans |-> FALSE]
    /\ data = [s \in Spans |-> NoData]
    /\ written = [s \in Spans |-> FALSE]
    /\ current_span = NoSpan
    /\ lock = NoThread
    /\ poisoned = FALSE
    /\ is_empty = [t \in Threads |-> TRUE]
    /\ frame = [t \in Threads |-> IdleFrame]
    /\ sink = <<>>
    /\ lastEvent = NoSpan
    /\ shown = [s \in Spans |-> FALSE]
    /\ opened = [s \in Spans |-> FALSE]
    /\ evented = [s \in Spans |-> FALSE]
    /\ unwound = NoPanic

Init ==
    /\ config \in [deferred_spans : BOOLEAN, span_retrace : BOOLEAN,
                   verbose_entry : BOOLEAN, verbose_exit : BOOLEAN]
    /\ layout = DefaultLayout
    /\ NoCallback
    /\ NoText
    /\ NoTime
    /\ NoFields

\* The thread runs code that may call the layer: the application (idle) or
\* user code inside a callback that holds the lock (writer, timer, Debug).
Running(t) == frame[t].pc \in {"idle", "run"}

\* A callback in flight holds a reference to the span.
InUse(s) ==
    \E t \in Threads :
        /\ frame[t].pc # "idle"
        /\ \/ frame[t].span = s
           \/ frame[t].kind = "new" /\ parent[frame[t].span] = s

Closing(s) ==
    \E t \in Threads : frame[t].pc # "idle" /\ frame[t].kind = "close"
                       /\ frame[t].span = s

\* The registry hands the id of a new span to its creator only when
\* on_new_span has returned: until then no other callback can name it.
Creating(s) ==
    \E t \in Threads : frame[t].pc # "idle" /\ frame[t].kind = "new"
                       /\ frame[t].span = s

Usable(s) == s \in live /\ ~Closing(s) /\ ~Creating(s)

\* The registry removes the spans of `gone`: their parent links and their
\* extensions (Data) go with them, and so does what was recorded about them.
\* Buffers.current_span is not touched.
Remove(gone, wr) ==
    /\ live' = live \ gone
    /\ parent' = [s \in Spans |-> IF s \in gone THEN NoSpan ELSE parent[s]]
    /\ hasData' = [s \in Spans |-> IF s \in gone THEN FALSE ELSE hasData[s]]
    /\ data' = [s \in Spans |-> IF s \in gone THEN NoData ELSE data[s]]
    /\ written' = [s \in Spans |-> IF s \in gone THEN FALSE ELSE wr[s]]
    /\ shown' = [s \in Spans |-> IF s \in gone THEN FALSE ELSE shown[s]]
    /\ opened' = [s \in Spans |-> IF s \in gone THEN FALSE ELSE opened[s]]
    /\ evented' = [s \in Spans |-> IF s \in gone THEN FALSE ELSE evented[s]]
    /\ UNCHANGED created

\* A callback that is_recursive turns away returns at once.
Dropped(t) ==
    /\ frame' = [frame EXCEPT ![t].nested = TRUE]
    /\ UNCHANGED <<config, current_span, lock, poisoned, is_empty, sink,
                   lastEvent>>

\* A callback that got its guard and goes on to bufs.lock(), where it
\* blocks while another thread holds the Mutex.
Enter(t, kind, s) ==
    /\ is_empty' = [is_empty EXCEPT ![t] = FALSE]
    /\ frame' = [frame EXCEPT ![t] =
                    [IdleFrame EXCEPT !.pc = "wait", !.kind = kind, !.span = s,
                                      !.blocked = (lock # NoThread)]]

\* A Data that is born written in every mode: the mutant of InitiallyWritten.
InitiallyWrittenAlways == TRUE

\* on_new_span: Data::new(attrs, !self.config.deferred_spans)
InitiallyWritten == ~config.deferred_spans

\* An on_new_span that always goes on to print: the mutant of
\* ReturnsDeferred.
ReturnsDeferredNever == FALSE

\* on_new_span: "if self.config.deferred_spans { return; }".
ReturnsDeferred == config.deferred_spans

\* on_new_span, up to the lock.  The registry has created the span.
NewSpan(t, p, max) ==
    /\ Running(t)
    /\ created < max
    /\ p = NoSpan \/ Usable(p)
    /\ LET id == created + 1 IN
        /\ created' = id
        /\ parent' = [parent EXCEPT ![id] = p]
        /\ live' = live \union {id}
        /\ IF ~is_recursive(t)
           THEN /\ Dropped(t)
                /\ UNCHANGED <<hasData, data, written>>
           ELSE /\ hasData' = [hasData EXCEPT ![id] = TRUE]
                /\ data' = [data EXCEPT ![id] = DataNew(id)]
                /\ written' = [written EXCEPT ![id] = InitiallyWritten]
                /\ IF ReturnsDeferred
                   THEN UNCHANGED <<is_empty, frame>>
                   ELSE Enter(t, "new", id)
                /\ UNCHANGED <<config, current_span, lock, poisoned, sink,
                               lastEvent>>
    /\ UNCHANGED <<shown, opened, evented>>
    /\ UNCHANGED unwound
    /\ UNCHANGED nonLayerVars

\* on_event, up to the lock.
Event(t, s) ==
    /\ Running(t)
    /\ s = NoSpan \/ Usable(s)
    /\ IF ~is_recursive(t)
       THEN Dropped(t)
       ELSE /\ Enter(t, "event", s)
            /\ UNCHANGED <<config, current_span, lock, poisoned, sink,
                           lastEvent>>
    /\ UNCHANGED <<registryVars, hasData, data, written, shown, opened,
                   evented>>
    /\ UNCHANGED unwound
    /\ UNCHANGED nonLayerVars

\* on_close, up to the lock.  The registry calls it when the last handle of
\* a span is dropped, and removes the span when the callback has returned.
Close(t, s) ==
    /\ Running(t)
    /\ Usable(s)
    /\ ~InUse(s)
    /\ \A c \in live : parent[c] # s
    /\ IF ~is_recursive(t)
       THEN /\ Dropped(t)
            /\ Remove({s}, written)
       ELSE /\ Enter(t, "close", s)
            /\ UNCHANGED <<config, current_span, lock, poisoned, sink,
                           lastEvent, registryVars, hasData, data, written,
                           shown,
                           opened, evented>>
    /\ UNCHANGED unwound
    /\ UNCHANGED nonLayerVars

\* A RecursiveGuard whose drop leaves the flag taken: the mutant of Leave.
LeaveFlagTaken(t, wr) ==
    /\ UNCHANGED is_empty
    /\ frame' = [frame EXCEPT ![t] = IdleFrame]
    /\ Remove(IF frame[t].kind = "close" THEN {frame[t].span} ELSE {}, wr)

\* The callback unwinds or returns: the RecursiveGuard is dropped, and the
\* registry removes a span that was closing.
Leave(t, wr) ==
    /\ is_empty' = [is_empty EXCEPT ![t] = TRUE]
    /\ frame' = [frame EXCEPT ![t] = IdleFrame]
    /\ Remove(IF frame[t].kind = "close" THEN {frame[t].span} ELSE {}, wr)

\* The callback of t panics: what it had written and what it had yet to
\* write.
Unwound(t, cause) == [cause |-> cause, thread |-> t, frame |-> frame[t]]

\* bufs.lock().unwrap() on a poisoned Mutex panics.
LockPoisoned(t) ==
    /\ frame[t].pc = "wait"
    /\ lock = NoThread
    /\ poisoned
    /\ Leave(t, written)
    /\ UNCHANGED <<config, current_span, lock, poisoned, sink, lastEvent>>
    /\ unwound' = Unwound(t, "lock")
    /\ UNCHANGED nonLayerVars

\* A Mutex that admits a second holder: the mutant of MutexFree.
MutexAlwaysFree == TRUE

\* The Mutex admits one holder.
MutexFree == lock = NoThread

\* A retrace for every event in a span, whatever the configuration: the
\* mutant of Retraces.
RetracesEveryEvent(kind, s) ==
    \/ kind = "event" /\ s # NoSpan
    \/ kind = "new" /\ config.span_retrace

\* write_retrace_span runs for this callback.
Retraces(kind, s) ==
    \/ kind = "event" /\ s # NoSpan
       /\ (config.span_retrace \/ config.deferred_spans)
    \/ kind = "new" /\ config.span_retrace

\* A retrace that forgets to store the new span: the mutant of Replaced.
ReplacedNot(kind, s) == current_span

\* write_retrace_span: bufs.current_span.replace(new_span.id())
Replaced(kind, s) == IF Retraces(kind, s) THEN s ELSE current_span

\* bufs.lock(): the callback plans its writes; on_event and on_new_span
\* replace current_span first thing in write_retrace_span.
Acquire(t) ==
    /\ frame[t].pc = "wait"
    /\ MutexFree
    /\ ~poisoned
    /\ lock' = t
    /\ LET f == frame[t]
           s == f.span
           ops == CASE f.kind = "event" -> EventOps(s)
                    [] f.kind = "new"   -> NewSpanOps(s)
                    [] f.kind = "close" -> CloseOps(s)
       IN  /\ frame' = [frame EXCEPT ![t] =
                          [f EXCEPT !.pc = "run", !.ops = ops,
                                    !.old = current_span,
                                    !.old_path = OldPath(current_span),
                                    !.recon = Retraces(f.kind, s)]]
           /\ current_span' = Replaced(f.kind, s)
           /\ evented' = IF f.kind = "event" /\ s # NoSpan
                            /\ config.deferred_spans
                         THEN [x \in Spans |->
                                 evented[x] \/ \E i \in 1..Len(scope_path(s)) :
                                                   scope_path(s)[i] = x]
                         ELSE evented
    /\ sink' = <<>>
    /\ UNCHANGED <<config, registryVars, hasData, data, written, poisoned,
                   is_empty,
                   lastEvent, shown, opened>>
    /\ UNCHANGED unwound
    /\ UNCHANGED nonLayerVars

\* A mem::replace that stores the negation of the flag: the mutant of
\* Marked.
MarkedNegated(op) ==
    IF op.mark # NoSpan /\ hasData[op.mark]
    THEN [written EXCEPT ![op.mark] = ~@] ELSE written

\* Data.written after the mem::replace an operation starts with.
Marked(op) ==
    IF op.mark # NoSpan /\ hasData[op.mark]
    THEN [written EXCEPT ![op.mark] = TRUE] ELSE written

\* write_span_info and write_timestamp expect the span's Data.
NeedsData(op) == op.span # NoSpan /\ ~hasData[op.span]

\* A timer asked for the time by every line: the mutant of CallsFormatTime.
CallsFormatTimeAlways(op) == TRUE

\* on_event: "self.timer.format_time(&mut event_buf)"; write_span_info
\* never calls it.
CallsFormatTime(op) == op.mode = "Event"

\* One write_span_info (or the event's flush): the unit reaches the sink.
Write(t) ==
    /\ frame[t].pc = "run"
    /\ frame[t].ops # <<>>
    /\ LET op == Head(frame[t].ops) IN
        /\ ~NeedsData(op)
        /\ LET u == Unit(op.span, op.mode, op.verbose,
                         op.mode # "Event" /\ ~shown[op.span])
           IN  /\ sink' = Append(sink, u)
               /\ frame' = [frame EXCEPT
                               ![t].ops = Tail(@),
                               ![t].out = Append(@, u),
                               ![t].timed = IF CallsFormatTime(op)
                                            THEN @ + 1 ELSE @]
        /\ shown' = IF op.mode = "Event" THEN shown
                    ELSE [shown EXCEPT ![op.span] = TRUE]
        /\ opened' = IF op.mode = "Open"
                     THEN [opened EXCEPT ![op.span] = TRUE] ELSE opened
        /\ written' = Marked(op)
        /\ current_span' = IF op.setAfter # NoSpan THEN op.setAfter
                           ELSE IF op.setBefore # NoSpan THEN op.setBefore
                           ELSE current_span
    /\ UNCHANGED <<config, registryVars, hasData, data, lock, poisoned,
                   is_empty,
                   lastEvent, evented>>
    /\ UNCHANGED unwound
    /\ UNCHANGED nonLayerVars

\* A failure that is swallowed: the callback goes on with its next write.
\* The mutant of Panic.
PanicCaught(t) ==
    /\ frame' = [frame EXCEPT ![t].ops = Tail(@)]
    /\ UNCHANGED <<config, registryVars, hasData, data, written, current_span,
                   lock,
                   poisoned, is_empty, sink, lastEvent, shown, opened, evented>>

\* A panic below the lock: the MutexGuard is dropped while unwinding, which
\* poisons the Mutex.
Panic(t) ==
    /\ LET op == Head(frame[t].ops) IN
        /\ current_span' = IF op.setBefore # NoSpan THEN op.setBefore
                           ELSE current_span
        /\ Leave(t, Marked(op))
    /\ poisoned' = TRUE
    /\ lock' = NoThread
    /\ sink' = <<>>
    /\ lastEvent' = NoSpan
    /\ UNCHANGED config

\* write_span_info / write_timestamp on a span without Data: expect() panics.
MissingData(t) ==
    /\ frame[t].pc = "run"
    /\ frame[t].ops # <<>>
    /\ NeedsData(Head(frame[t].ops))
    /\ Panic(t)
    /\ unwound' = Unwound(t, "data")
    /\ UNCHANGED nonLayerVars

\* flush_current_buf: write!(writer, ..).unwrap() panics when the sink fails.
SinkFails(t) ==
    /\ frame[t].pc = "run"
    /\ frame[t].ops # <<>>
    /\ ~NeedsData(Head(frame[t].ops))
    /\ Panic(t)
    /\ unwound' = Unwound(t, "sink")
    /\ UNCHANGED nonLayerVars

\* The callback returns: the MutexGuard and the RecursiveGuard are dropped.
Release(t) ==
    /\ frame[t].pc = "run"
    /\ frame[t].ops = <<>>
    /\ lock' = NoThread
    /\ sink' = <<>>
    /\ lastEvent' = IF frame[t].kind = "event" THEN frame[t].span ELSE NoSpan
    /\ Leave(t, written)
    /\ UNCHANGED <<config, current_span, poisoned>>
    /\ UNCHANGED unwound
    /\ UNCHANGED nonLayerVars

\* The layer's callbacks, as the subscriber invokes them on thread t.
Callback(t, max) ==
    \/ \E p \in Spans \union {NoSpan} : NewSpan(t, p, max)
    \/ \E s \in Spans \union {NoSpan} : Event(t, s)
    \/ \E s \in Spans : Close(t, s)

Step(t, max) ==
    \/ \E p \in Spans \union {NoSpan} : NewSpan(t, p, max)
    \/ \E s \in Spans \union {NoSpan} : Event(t, s)
    \/ \E s \in Spans : Close(t, s)
    \/ Acquire(t)
    \/ LockPoisoned(t)
    \/ Write(t)
    \/ MissingData(t)
    \/ SinkFails(t)
    \/ Release(t)

\* One thread issues the callbacks.
Next == Step(1, MaxSpans)

Spec == Init /\ [][Next]_vars

\* Several threads issue callbacks on one layer.
NextThreads == \E t \in Threads : Step(t, MaxThreadSpans)

SpecThreads == Init /\ [][NextThreads]_vars

\* ---------------------------------------------------------- rendering text

\* on_event: "let deindent = if self.config.indent_lines { 0 } else { 1 }".
Deindent(indent_lines) == IF indent_lines THEN 0 ELSE 1

\* An event indent without the deindent of the whitespace style: the mutant
\* of EventIndent.
EventIndentUnshifted(scope, indent_lines) == scope

\* on_event: the indent of an event whose scope has `scope` spans, 0 when
\* the event is in no span (event_scope is None).
EventIndent(scope, indent_lines) ==
    IF scope = 0 THEN 0 ELSE scope - Deindent(indent_lines)

\* write_span_info: the indent of a banner of a span whose scope has `scope`
\* spans, itself included: scope_path(span).skip(1).count().
SpanIndent(scope) == scope - 1

\* The indent on_event or write_span_info passes to indent_current.
IndentOf(style, scope, indent_lines) ==
    IF style.mode = "Event" THEN EventIndent(scope, indent_lines)
    ELSE SpanIndent(scope)

\* write_span_info or on_event has formatted a unit into current_buf and
\* computed its indent from the scope of its span: an event is in a span or
\* in none, a banner is of a span.
Format ==
    /\ text_pc = "idle"
    /\ \E content \in Contents(MaxContent) : \E scope \in 0..(MaxIndent + 1) :
       \E style \in SpanModes :
          /\ style.mode # "Event" => scope >= 1
          /\ IndentOf(style, scope, layout.indent_lines) <= MaxIndent
          /\ current_buf' = current_buf \o content
          /\ unit' = [indent |-> IndentOf(style, scope, layout.indent_lines),
                       style |-> style, content |-> content, scope |-> scope]
    /\ text_pc' = "formatted"
    /\ writer' = <<>>
    /\ UNCHANGED <<layout, indent_buf>>
    /\ UNCHANGED nonTextVars

\* bufs.indent_current(indent, &self.config, style).
IndentCurrent ==
    /\ text_pc = "formatted"
    /\ layout.wraparound # 0
    /\ LET bufs == indent_current(current_buf, indent_buf, unit.indent, layout,
                                  unit.style)
       IN  /\ current_buf' = bufs.current_buf
           /\ indent_buf' = bufs.indent_buf
    /\ text_pc' = "indented"
    /\ UNCHANGED <<layout, unit, writer>>
    /\ UNCHANGED nonTextVars

\* indent_current with a wraparound of 0: "indent % config.wraparound"
\* panics, after the line feed of the box-drawing style was pushed.
RemainderByZero ==
    /\ text_pc = "formatted"
    /\ layout.wraparound = 0
    /\ current_buf' = IF layout.indent_lines
                      THEN Append(current_buf, NewLine) ELSE current_buf
    /\ text_pc' = "panicked"
    /\ UNCHANGED <<layout, indent_buf, unit, writer>>
    /\ UNCHANGED nonTextVars

\* A clear() that leaves the String as it is: the mutant of Cleared.
ClearedNot(buf) == buf

\* String::clear.
Cleared(buf) == <<>>

\* Buffers::flush_current_buf.
FlushCurrentBuf ==
    /\ text_pc = "indented"
    /\ writer' = current_buf
    /\ current_buf' = Cleared(current_buf)
    /\ text_pc' = "idle"
    /\ UNCHANGED <<layout, indent_buf, unit>>
    /\ UNCHANGED nonTextVars

\* Buffers::flush_current_buf when the write fails: unwrap() panics before
\* current_buf is cleared.
FlushFails ==
    /\ text_pc = "indented"
    /\ text_pc' = "panicked"
    /\ UNCHANGED <<layout, current_buf, indent_buf, unit, writer>>
    /\ UNCHANGED nonTextVars

InitText ==
    /\ config = [deferred_spans |-> FALSE, span_retrace |-> FALSE,
                 verbose_entry |-> FALSE, verbose_exit |-> FALSE]
    /\ layout \in Layouts
    /\ NoCallback
    /\ NoText
    /\ NoTime
    /\ NoFields

NextText ==
    Format \/ IndentCurrent \/ RemainderByZero \/ FlushCurrentBuf \/ FlushFails

\* The rendering of units of every content, depth and style, one after the
\* other, under every configuration.
SpecText == InitText /\ [][NextText]_vars

\* ------------------------------------------------- formatting elapsed time

\* write_timestamp: "data.start.elapsed()", some time after the span began.
Elapse ==
    /\ timestamp # NoTimestamp
    /\ elapsed' \in Durations
    /\ timestamp' = NoTimestamp
    /\ UNCHANGED nonTimeVars

\* style_timestamp without higher_precision: format_timestamp.
FormatTimestamp ==
    /\ timestamp = NoTimestamp
    /\ timestamp' = format_timestamp(elapsed)
    /\ UNCHANGED elapsed
    /\ UNCHANGED nonTimeVars

InitTime ==
    /\ config = [deferred_spans |-> FALSE, span_retrace |-> FALSE,
                 verbose_entry |-> FALSE, verbose_exit |-> FALSE]
    /\ layout = DefaultLayout
    /\ NoCallback
    /\ NoText
    /\ NoFields
    /\ elapsed \in Durations
    /\ timestamp = NoTimestamp

NextTime == Elapse \/ FormatTimestamp

\* The elapsed times of spans, formatted one after the other.
SpecTime == InitTime /\ [][NextTime]_vars

\* ------------------------------------------------------- formatting fields

\* format_span_text: print_kvs over the fields kept in the span's Data.
PrintKvs ==
    /\ formatter = "print_kvs"
    /\ visited < Len(kvs)
    /\ fields_buf' = fields_buf \o print_kvs(kvs)
    /\ visited' = Len(kvs)
    /\ UNCHANGED <<kvs, formatter, comma, tracing_log>>
    /\ UNCHANGED nonFieldVars

\* on_event: event.record(&mut FmtEvent) visits the next field of the event.
RecordDebug ==
    /\ formatter = "FmtEvent"
    /\ visited < Len(kvs)
    /\ LET f == kvs[visited + 1] IN
        /\ fields_buf' = fields_buf \o record_debug(f, comma, tracing_log)
        /\ comma' = (comma \/ SetsComma(f, tracing_log))
    /\ visited' = visited + 1
    /\ UNCHANGED <<kvs, formatter, tracing_log>>
    /\ UNCHANGED nonFieldVars

InitFields ==
    /\ config = [deferred_spans |-> FALSE, span_retrace |-> FALSE,
                 verbose_entry |-> FALSE, verbose_exit |-> FALSE]
    /\ layout = DefaultLayout
    /\ NoCallback
    /\ NoText
    /\ NoTime
    /\ kvs \in FieldLists(MaxFields)
    /\ formatter \in {"print_kvs", "FmtEvent"}
    /\ visited = 0
    /\ comma = FALSE
    /\ tracing_log \in BOOLEAN
    /\ fields_buf = <<>>

NextFields == PrintKvs \/ RecordDebug

\* The fields of spans and of events, formatted by the code of each, in
\* builds with and without the feature "tracing-log".
SpecFields == InitFields /\ [][NextFields]_vars

TypeOK ==
    /\ created \in 0..MaxSpans
    /\ live \subseteq 1..created
    /\ current_span \in Spans \union {NoSpan}
    /\ lock \in Threads \union {NoThread}

\* ============================================================== properties

\* The callback of t holds the lock and has made all its writes.
Done(t) == frame[t].pc = "run" /\ frame[t].ops = <<>>

\* The length of the longest common prefix of two paths.
CommonPrefixLen(a, b) ==
    LET agree == {k \in 0..Len(b) :
                     k <= Len(a) /\ \A i \in 1..k : a[i] = b[i]}
    IN  CHOOSE k \in agree : \A j \in agree : j <= k

\* The part of path b beyond its longest common prefix with path a.
SuffixBeyondCommonPrefix(a, b) == SubSeq(b, CommonPrefixLen(a, b) + 1, Len(b))

IsPrefix(a, b) == Len(a) <= Len(b) /\ SubSeq(b, 1, Len(a)) = a

IsBanner(u) == u.mode \in {"Open", "Retrace"}

\* The spans of the Open and Retrace banners of an output, in order.
BannerSpans(out) ==
    LET b == SelectSeq(out, IsBanner) IN [i \in 1..Len(b) |-> b[i].span]

\* The callback of t reconciles from a live span to a different span.
ReconcilesFromLive(t) ==
    /\ frame[t].pc = "run"
    /\ frame[t].recon
    /\ frame[t].old_path # <<>>
    /\ frame[t].old # frame[t].span

\* C1: reconciling from a live span P to a span N # P emits Open/Retrace
\* banners for exactly the spans of path(N) beyond the longest common prefix
\* of path(P) and path(N), each once, root first (never anything else on the
\* way, and all of them once the writes are made); and for any two live
\* spans the position-wise comparison of DifferenceIter yields that suffix.
C1_RetraceEmitsSuffix ==
    /\ \A p \in live : \A n \in live :
          DifferenceIter(scope_path(p), scope_path(n))
              = SuffixBeyondCommonPrefix(scope_path(p), scope_path(n))
    /\ \A t \in Threads :
          ReconcilesFromLive(t) =>
              LET suffix == SuffixBeyondCommonPrefix(
                                frame[t].old_path, scope_path(frame[t].span))
              IN  /\ IsPrefix(BannerSpans(frame[t].out), suffix)
                  /\ Done(t) => BannerSpans(frame[t].out) = suffix

\* C1 witness: focus has moved from a span at depth >= 1 to a span that
\* shares an ancestor with it, and the banners have been written.
C1_Witness ==
    \E t \in Threads :
        /\ ReconcilesFromLive(t)
        /\ Done(t)
        /\ Len(frame[t].old_path) >= 2
        /\ CommonPrefixLen(frame[t].old_path, scope_path(frame[t].span)) >= 1
        /\ BannerSpans(frame[t].out) = <<frame[t].span>>

\* The callback of t renders an event whose current span is a span.
EventIn(t) ==
    frame[t].pc = "run" /\ frame[t].kind = "event" /\ frame[t].span # NoSpan

\* C2: an event in span S writes at most one Open/Retrace banner of S, and
\* nothing after its event line; when the callback before it rendered an
\* event in the same span S, it writes no banner at all: its event line only.
C2_SameSpanEvents ==
    \A t \in Threads :
        EventIn(t) =>
            LET out == frame[t].out
                S   == frame[t].span
            IN  /\ Cardinality({i \in 1..Len(out) :
                                   IsBanner(out[i]) /\ out[i].span = S}) <= 1
                /\ \A i \in 1..Len(out) : out[i].mode = "Event" => i = Len(out)
                /\ lastEvent = S =>
                      /\ \A i \in 1..Len(out) : out[i].mode = "Event"
                      /\ Done(t) => out = <<Unit(S, "Event", FALSE, FALSE)>>

\* C2 witness: the second of two events in one span, in a mode that
\* retraces, has written its event line and nothing else.
C2_Witness ==
    \E t \in Threads :
        /\ EventIn(t)
        /\ Done(t)
        /\ lastEvent = frame[t].span
        /\ config.span_retrace \/ config.deferred_spans
        /\ shown[frame[t].span]
        /\ frame[t].out = <<Unit(frame[t].span, "Event", FALSE, FALSE)>>

\* C3: with deferred_spans, a span in which (or below which) no event was
\* rendered has no line of any mode in the output, at any time of its life.
C3_DeferredSuppression ==
    config.deferred_spans => \A s \in Spans : shown[s] => evented[s]

\* C3 witness: with deferred_spans, a span without any event is closed
\* without output while another span has been printed.
C3_Witness ==
    \E t \in Threads :
        /\ config.deferred_spans
        /\ Done(t)
        /\ frame[t].kind = "close"
        /\ ~evented[frame[t].span]
        /\ frame[t].out = <<>>
        /\ \E x \in live : shown[x]

\* The output holds a Close banner of span s.
HasClose(out, s) ==
    \E i \in 1..Len(out) : out[i].mode = "Close" /\ out[i].span = s

\* C4: with deferred_spans, on_close of S writes a Close banner of S exactly
\* when S.written is set, no callback writes a Close banner of another span,
\* and a Close banner of S is written only after an Open banner of S.
C4_CloseIffWritten ==
    config.deferred_spans =>
        \A t \in Threads :
            frame[t].pc = "run" =>
                LET S == frame[t].span IN
                /\ \A i \in 1..Len(frame[t].out) :
                      frame[t].out[i].mode = "Close" =>
                          /\ frame[t].kind = "close"
                          /\ frame[t].out[i].span = S
                          /\ hasData[S] /\ written[S]
                          /\ opened[S]
                /\ frame[t].kind = "close" /\ Done(t) =>
                      (HasClose(frame[t].out, S) <=> hasData[S] /\ written[S])

\* C4 witness: with deferred_spans, on_close has written the Close banner of
\* a span that was written.
C4_Witness ==
    \E t \in Threads :
        /\ config.deferred_spans
        /\ Done(t)
        /\ frame[t].kind = "close"
        /\ written[frame[t].span]
        /\ HasClose(frame[t].out, frame[t].span)

\* The spans an output has a span line for, whatever its mode.
LineSpans(out) ==
    {out[i].span : i \in {j \in 1..Len(out) : out[j].mode # "Event"}}

\* C5 (as claimed): in every configuration a banner of the reconciled suffix
\* is in Open mode when no line of its span was written before and in
\* Retrace mode when one was, and its span is written afterwards.
C5_OpenIffFirstBanner ==
    \A t \in Threads :
        frame[t].pc = "run" /\ frame[t].recon =>
            \A i \in 1..Len(frame[t].out) :
                IsBanner(frame[t].out[i]) =>
                    /\ frame[t].out[i].first <=> frame[t].out[i].mode = "Open"
                    /\ written[frame[t].out[i].span]

\* The spans path(N) and the old path have in common.
CommonPrefixSpans(t) ==
    LET new_path == scope_path(frame[t].span)
    IN  {new_path[i] :
            i \in 1..CommonPrefixLen(frame[t].old_path, new_path)}

\* The callback of t is an event that moves focus from a span to a sibling.
SiblingMove(t) ==
    /\ EventIn(t)
    /\ frame[t].recon
    /\ frame[t].old # frame[t].span
    /\ frame[t].old_path # <<>>
    /\ parent[frame[t].span] # NoSpan
    /\ frame[t].old_path
         = Append(scope_path(parent[frame[t].span]), frame[t].old)

\* C6 (as claimed): a reconciliation writes a PreOpen line only for a
\* new-span callback with verbose_entry; one triggered by an event writes no
\* line for a span of the common prefix, and a move to a sibling writes the
\* sibling's banner and the event line only.
C6_PreOpenOnlyForNewSpan ==
    \A t \in Threads :
        frame[t].pc = "run" /\ frame[t].recon =>
            /\ \A i \in 1..Len(frame[t].out) :
                  frame[t].out[i].mode = "PreOpen" =>
                      frame[t].kind = "new" /\ config.verbose_entry
            /\ frame[t].kind = "event" =>
                  LineSpans(frame[t].out) \cap CommonPrefixSpans(t) = {}
            /\ SiblingMove(t) /\ Done(t) =>
                  /\ Len(frame[t].out) = 2
                  /\ IsBanner(frame[t].out[1])
                  /\ frame[t].out[1].span = frame[t].span

\* C6 (amended): a reconciliation writes a PreOpen line only with
\* verbose_entry, as its first line and for the parent of the first span of
\* the suffix, whether a new span or an event triggered it; with
\* verbose_entry off it writes no line for a span of the common prefix.  A
\* move to a sibling by an event writes one banner of the sibling, preceded
\* by one PreOpen line of the shared parent exactly when verbose_entry is on.
C6_PreOpenOnlyVerboseEntry ==
    \A t \in Threads :
        frame[t].pc = "run" /\ frame[t].recon =>
            LET out == frame[t].out IN
            /\ \A i \in 1..Len(out) :
                  out[i].mode = "PreOpen" =>
                      /\ config.verbose_entry
                      /\ i = 1
                      /\ Len(out) >= 2 =>
                            /\ IsBanner(out[2])
                            /\ out[1].span = parent[out[2].span]
            /\ ~config.verbose_entry =>
                  LineSpans(out) \cap CommonPrefixSpans(t) = {}
            /\ SiblingMove(t) /\ Done(t) =>
                  LET pre == IF config.verbose_entry THEN 1 ELSE 0 IN
                  /\ Len(out) = pre + 2
                  /\ pre = 1 => /\ out[1].mode = "PreOpen"
                                /\ out[1].span = parent[frame[t].span]
                  /\ IsBanner(out[pre + 1])
                  /\ out[pre + 1].span = frame[t].span
                  /\ out[pre + 2].mode = "Event"

\* C6 witness: with verbose_entry, an event has moved focus to a sibling and
\* the parent's PreOpen line was written before the sibling's banner.
C6_Witness ==
    \E t \in Threads :
        /\ SiblingMove(t)
        /\ Done(t)
        /\ config.verbose_entry
        /\ frame[t].out[1].mode = "PreOpen"

\* The callback of t reconciles from a span that no longer resolves.
ReconcilesFromDead(t) ==
    /\ frame[t].pc = "run"
    /\ frame[t].recon
    /\ frame[t].old # NoSpan
    /\ frame[t].old \notin live
    /\ frame[t].old_path = <<>>

\* C7: when current_span names a span that no longer resolves, reconciling
\* to N writes a banner for every span of the root path of N, root first
\* (never anything else on the way, all of them once the writes are made),
\* and the spans among them that had a line before are in Retrace mode.
C7_DeadPreviousSpan ==
    \A t \in Threads :
        ReconcilesFromDead(t) =>
            /\ IsPrefix(BannerSpans(frame[t].out), scope_path(frame[t].span))
            /\ Done(t) => BannerSpans(frame[t].out) = scope_path(frame[t].span)
            /\ \A i \in 1..Len(frame[t].out) :
                  IsBanner(frame[t].out[i]) /\ ~frame[t].out[i].first =>
                      frame[t].out[i].mode = "Retrace"

\* C7 witness: the previous span is gone, and the whole path of a span at
\* depth >= 1 was written again, its printed root in Retrace mode.
C7_Witness ==
    \E t \in Threads :
        /\ ReconcilesFromDead(t)
        /\ Done(t)
        /\ Len(scope_path(frame[t].span)) >= 2
        /\ BannerSpans(frame[t].out) = scope_path(frame[t].span)
        /\ ~frame[t].out[1].first
        /\ frame[t].out[1].mode = "Retrace"

\* A callback is invoked on thread t while a callback of t is executing.
NestedCallback(t) == frame[t].pc = "run" /\ Callback(t, MaxThreadSpans)

\* C8: a callback invoked on a thread that is executing a callback returns
\* without taking the lock or the recursion flag, without writing to the
\* sink and without changing current_span or the Data of any span; the
\* outer callback keeps its output and its pending writes.
C8_NestedCallbackDropped ==
    [][\A t \in Threads :
          NestedCallback(t) =>
              /\ lock' = lock /\ lock = t
              /\ is_empty' = is_empty
              /\ poisoned' = poisoned
              /\ sink' = sink
              /\ current_span' = current_span
              /\ \A s \in live \cap live' :
                    hasData'[s] = hasData[s] /\ written'[s] = written[s]
              /\ \A s \in live' \ live : ~hasData'[s]
              /\ frame' = [frame EXCEPT ![t].nested = TRUE]]_vars

\* C8 witness: a callback during which a nested callback was dropped has
\* made all its writes, and they are what reached the sink.
C8_Witness ==
    \E t \in Threads :
        /\ Done(t)
        /\ frame[t].nested
        /\ frame[t].out # <<>>
        /\ sink = frame[t].out

\* C9: what reaches the sink while a callback holds the lock is that
\* callback's output and nothing else: only the holder of the lock writes,
\* and no second callback writes before the holder has returned.
C9_NoInterleavedOutput ==
    /\ \A t \in Threads :
          frame[t].pc = "run" => lock = t /\ sink = frame[t].out
    /\ lock = NoThread => sink = <<>>

\* C9 witness: a callback is between two of its writes while a callback of
\* another thread waits for the lock.
C9_Witness ==
    \E t \in Threads : \E u \in Threads :
        /\ t # u
        /\ frame[t].pc = "run"
        /\ frame[t].out # <<>>
        /\ frame[t].ops # <<>>
        /\ frame[u].pc = "wait"

\* C10: every string flush_current_buf hands to the writer is empty or made
\* of complete lines, that is it ends with a line feed, whatever the span
\* mode, the depth, the indent width, the wraparound >= 1 and the style.
C10_FlushedCompleteLines ==
    layout.wraparound >= 1 =>
        \/ writer = <<>>
        \/ writer[Len(writer)] = NewLine

\* C10 witness: a unit of two lines was flushed in the box-drawing style at a
\* depth where the wraparound adds its line.
C10_Witness ==
    /\ text_pc = "idle"
    /\ layout.indent_lines
    /\ layout.wraparound = 2
    /\ unit.indent = 1
    /\ unit.style.mode = "Open"
    /\ Len(lines(writer)) = 3
    /\ writer[Len(writer)] = NewLine

\* The last line of a non-empty output.
LastLine(out) == out[Len(out)]

\* The callback of t has made all its writes and wrote at least one line.
Wrote(t) == Done(t) /\ frame[t].out # <<>>

\* C11 (as claimed): when a callback that wrote something is about to
\* release the lock, current_span, if set, is the span of the line written
\* last, if that line is in a span.
C11_FocusIsLastLine ==
    \A t \in Threads :
        /\ Wrote(t)
        /\ current_span # NoSpan
        /\ LastLine(frame[t].out).span # NoSpan
        => current_span = LastLine(frame[t].out).span

\* C11 (amended): when a callback that wrote something is about to release
\* the lock, current_span is the span of the line written last when that is
\* an Open, Retrace or PostClose banner, or an event line in a span with
\* span_retrace or deferred_spans; it is the parent of the closed span after
\* the Close banner of a span that has one; and it is what it was before the
\* callback after the Close banner of a root, after an event outside every
\* span and after any event with neither span_retrace nor deferred_spans.
C11_FocusAfterCallback ==
    \A t \in Threads :
        Wrote(t) =>
            LET u == LastLine(frame[t].out) IN
            /\ u.mode \in {"Open", "Retrace", "PostClose", "Close", "Event"}
            /\ u.mode \in {"Open", "Retrace", "PostClose"} =>
                  current_span = u.span
            /\ u.mode = "Close" =>
                  current_span = IF parent[u.span] # NoSpan
                                 THEN parent[u.span] ELSE frame[t].old
            /\ u.mode = "Event" =>
                  current_span =
                      IF u.span # NoSpan
                         /\ (config.span_retrace \/ config.deferred_spans)
                      THEN u.span ELSE frame[t].old

\* C11 witness: without verbose_exit, the Close banner of a span with a
\* parent was the last line written and current_span is the parent.
C11_Witness ==
    \E t \in Threads :
        /\ Wrote(t)
        /\ ~config.verbose_exit
        /\ LastLine(frame[t].out).mode = "Close"
        /\ parent[frame[t].span] # NoSpan
        /\ current_span = parent[frame[t].span]
        /\ frame[t].old = frame[t].span

\* The unit being rendered, indented at depth d under a wraparound no depth
\* reaches.
Unwrapped(d) ==
    indent_current(unit.content, <<>>, d,
                   [layout EXCEPT !.wraparound = UsizeMax],
                   unit.style).current_buf

\* The depth of the unit being rendered is one where the indentation wraps.
Crossing ==
    unit.indent > 0 /\ (unit.indent + 1) % layout.wraparound = 0

\* A line that marks the wraparound: the prefix, horizontal glyphs and the
\* closing glyph.
WrapLine(glyph) ==
    layout.prefix
    \o Repeat(LINE_HORIZ,
              (unit.indent % layout.wraparound) * layout.indent_amount)
    \o <<glyph, NewLine>>

\* C12: in the box-drawing style with wraparound W >= 1, a unit at depth d
\* is drawn as it is at depth d mod W without wraparound; a Close banner at
\* a depth d > 0 with (d+1) mod W = 0 has exactly one wraparound line right
\* before it, an Open banner at such a depth exactly one right after it, and
\* at every other depth they have none.
C12_WrapAround ==
    text_pc = "indented" /\ layout.indent_lines /\ layout.wraparound >= 1 =>
        LET drawn == Unwrapped(unit.indent % layout.wraparound) IN
        /\ unit.style.mode = "Close" =>
              current_buf = IF Crossing THEN WrapLine(LINE_OPEN) \o drawn
                            ELSE drawn
        /\ unit.style.mode = "Open" =>
              current_buf = IF Crossing THEN drawn \o WrapLine(LINE_CLOSE)
                            ELSE drawn
        /\ unit.style.mode \in {"Retrace", "Event"} => current_buf = drawn
        /\ unit.style.mode = "PostClose" =>
              \E before \in {<<>>, WrapLine(LINE_OPEN)} :
                  current_buf = before \o drawn
        /\ unit.style.mode = "PreOpen" =>
              \E after \in {<<>>, WrapLine(LINE_CLOSE)} :
                  current_buf = drawn \o after

\* C12 witness: with a wraparound of 2, a Close banner at depth 3 was drawn
\* at depth 1 behind one wraparound line.
C12_Witness ==
    /\ text_pc = "indented"
    /\ layout.indent_lines
    /\ layout.wraparound = 2
    /\ layout.indent_amount = 2
    /\ unit.indent = 3
    /\ unit.style = SpanMode("Close", TRUE)
    /\ unit.content = <<"x">>
    /\ current_buf = WrapLine(LINE_OPEN) \o Unwrapped(1)
    /\ Len(lines(current_buf)) = 2

\* A non-verbose Open banner of one line was indented at depth 1 in the
\* box-drawing style with an indent width of 2, no prefix and a wraparound
\* above 2.
OpenAtDepthOne ==
    /\ text_pc = "indented"
    /\ layout.indent_lines
    /\ layout.indent_amount = 2
    /\ layout.wraparound > 2
    /\ layout.prefix = <<>>
    /\ unit.indent = 1
    /\ unit.style = SpanMode("Open", FALSE)
    /\ \A i \in 1..Len(unit.content) : unit.content[i] # NewLine

\* C13 (as claimed): such a banner is one line that starts with the branch
\* glyph and two horizontal glyphs, followed by the span text.
C13_OpenStartsWithBranch ==
    OpenAtDepthOne =>
        current_buf = <<LINE_BRANCH, LINE_HORIZ, LINE_HORIZ>>
                      \o unit.content \o <<NewLine>>

\* C13 (amended): such a banner is one line that starts with LINE_OPEN2, one
\* horizontal glyph and LINE_OPEN, followed by the span text.
C13_OpenStartsWithCorner ==
    OpenAtDepthOne =>
        current_buf = <<LINE_OPEN2, LINE_HORIZ, LINE_OPEN>>
                      \o unit.content \o <<NewLine>>

\* C13 witness: the banner of the text "x" under the default wraparound.
C13_Witness ==
    /\ OpenAtDepthOne
    /\ layout.wraparound = UsizeMax
    /\ unit.content = <<"x">>
    /\ current_buf = <<LINE_OPEN2, LINE_HORIZ, LINE_OPEN, "x", NewLine>>

\* A unit was indented in the whitespace style.
IndentedWithSpaces ==
    /\ text_pc = "indented"
    /\ ~layout.indent_lines
    /\ layout.wraparound >= 1

\* The number of spaces of the effective depth of the unit being rendered.
EffectiveSpaces ==
    (unit.indent % layout.wraparound) * layout.indent_amount

\* C14 (as claimed): in the whitespace style every line of a unit, the first
\* and the following ones alike, is the prefix, exactly (depth mod
\* wraparound) * indent_amount spaces and the content line.
C14_ExactSpaces ==
    IndentedWithSpaces =>
        LET ls == lines(unit.content)
            drawn == lines(current_buf)
        IN  /\ Len(drawn) = Len(ls)
            /\ \A i \in 1..Len(ls) :
                  drawn[i] = layout.prefix
                             \o Repeat(Space, EffectiveSpaces) \o ls[i]

\* C14 (amended): in the whitespace style the first line of a unit is the
\* prefix, one space, (depth mod wraparound) * indent_amount spaces and the
\* content line; every following line has two spaces more; no line has a
\* glyph, and the span mode makes no difference.
C14_SpacesAndHangingIndent ==
    IndentedWithSpaces =>
        LET ls == lines(unit.content)
            drawn == lines(current_buf)
        IN  /\ Len(drawn) = Len(ls)
            /\ \A i \in 1..Len(ls) :
                  drawn[i] =
                      layout.prefix
                      \o Repeat(Space, EffectiveSpaces
                                       + (IF i = 1 THEN 1 ELSE 3))
                      \o ls[i]

\* C14 witness: a PreOpen unit of two lines at depth 3 under a wraparound of
\* 2, an indent width of 2 and a thread prefix.
C14_Witness ==
    /\ IndentedWithSpaces
    /\ layout.wraparound = 2
    /\ layout.indent_amount = 2
    /\ layout.prefix = <<"1">>
    /\ unit.indent = 3
    /\ unit.style.mode = "PreOpen"
    /\ unit.content = <<NewLine, "x">>
    /\ current_buf = <<"1", Space, Space, Space, NewLine,
                       "1", Space, Space, Space, Space, Space, "x", NewLine>>

\* The effective depth of the unit being rendered.
EffectiveDepth == unit.indent % layout.wraparound

\* An Open, Retrace or Close banner was indented in the box-drawing style at
\* an effective depth >= 1 with an indent width >= 1.
BannerWithConnector ==
    /\ text_pc = "indented"
    /\ layout.indent_lines
    /\ layout.wraparound >= 1
    /\ layout.indent_amount >= 1
    /\ EffectiveDepth >= 1
    /\ unit.style.mode \in {"Open", "Retrace", "Close"}

\* The first line of the banner being rendered, behind the wraparound line
\* of a Close banner if there is one.
BannerLine ==
    lines(current_buf)[IF unit.style.mode = "Close" /\ Crossing THEN 2 ELSE 1]

\* C15: in the box-drawing style at a depth >= 1 and for every indent width
\* >= 1, the connector before the first line of an Open, Retrace or Close
\* banner is indent_amount + 1 columns wide, verbose or not, the form
\* without glyphs at an indent width of 1 included: the banner's first line
\* is the prefix, the indentation of the levels above, those columns and
\* the first content line.
C15_ConnectorWidth ==
    /\ \A m \in {"Open", "Retrace", "Close"} :
       \A a \in 1..MaxIndentAmount :
           /\ Len(Branch(SpanMode(m, TRUE), a)) = a + 1
           /\ Len(Branch(SpanMode(m, FALSE), a)) = a + 1
    /\ BannerWithConnector =>
           LET line == BannerLine
               content == lines(Append(unit.content, NewLine))[1]
               above == Len(layout.prefix)
                        + (EffectiveDepth - 1) * layout.indent_amount
               width == layout.indent_amount + 1
           IN  /\ Len(line) = above + width + Len(content)
               /\ SubSeq(line, above + width + 1, Len(line)) = content
               /\ SubSeq(line, above + 1, above + width)
                    = Branch(unit.style, layout.indent_amount)

\* C15 witness: a verbose Close banner at an indent width of 1, whose
\* connector is two spaces.
C15_Witness ==
    /\ BannerWithConnector
    /\ layout.indent_amount = 1
    /\ layout.prefix = <<>>
    /\ unit.indent = 1
    /\ unit.style = SpanMode("Close", TRUE)
    /\ unit.content = <<"x">>
    /\ BannerLine = <<Space, Space, "x">>

\* The callback of t is an on_close that has written the Close banner of a
\* span that has a parent.
ClosedUnderParent(t) ==
    /\ frame[t].pc = "run"
    /\ frame[t].kind = "close"
    /\ parent[frame[t].span] # NoSpan
    /\ HasClose(frame[t].out, frame[t].span)

\* C16: once on_close has written the Close banner of a span that has a
\* parent, current_span is the parent; with verbose_exit the next and last
\* line of the callback is the PostClose banner of the parent, and without
\* verbose_exit the Close banner is the last line.
C16_PostCloseIffVerboseExit ==
    \A t \in Threads :
        ClosedUnderParent(t) =>
            LET s == frame[t].span
                close == Unit(s, "Close", config.verbose_exit,
                              frame[t].out[1].first)
                post == Unit(parent[s], "PostClose", FALSE,
                             frame[t].out[Len(frame[t].out)].first)
            IN  /\ current_span = parent[s]
                /\ frame[t].out[1] = close
                /\ ~config.verbose_exit =>
                      frame[t].out = <<close>> /\ frame[t].ops = <<>>
                /\ config.verbose_exit =>
                      \/ /\ frame[t].out = <<close>>
                         /\ Len(frame[t].ops) = 1
                         /\ frame[t].ops[1].mode = "PostClose"
                         /\ frame[t].ops[1].span = parent[s]
                      \/ /\ frame[t].out = <<close, post>>
                         /\ frame[t].ops = <<>>
                /\ Done(t) =>
                      frame[t].out = IF config.verbose_exit
                                     THEN <<close, post>> ELSE <<close>>

\* C16 witness: with verbose_exit, an on_close has written the Close banner
\* and the PostClose banner of the parent and is about to return.
C16_Witness ==
    \E t \in Threads :
        /\ ClosedUnderParent(t)
        /\ Done(t)
        /\ config.verbose_exit
        /\ Len(frame[t].out) = 2
        /\ frame[t].out[2].mode = "PostClose"
        /\ frame[t].out[2].span = parent[frame[t].span]
        /\ current_span = parent[frame[t].span]

\* The callback of t is an on_new_span that has made all its writes.
NewSpanDone(t) == Done(t) /\ frame[t].kind = "new"

\* The places of the Open and Retrace banners of span s in an output.
BannersOf(out, s) ==
    {i \in 1..Len(out) : IsBanner(out[i]) /\ out[i].span = s}

\* on_new_span is invoked on thread t, which is in no callback.
NewSpanCalled(t) ==
    /\ is_recursive(t)
    /\ \E p \in Spans \union {NoSpan} : NewSpan(t, p, MaxSpans)

\* C17 (as claimed): an on_new_span without deferred_spans writes exactly
\* one banner of the new span, its last line, and with verbose_entry the
\* line right before that banner is the PreOpen line of the span's parent.
C17_OneBannerAfterParentLine ==
    \A t \in Threads :
        NewSpanDone(t) =>
            LET out == frame[t].out
                s == frame[t].span
            IN  /\ BannersOf(out, s) = {Len(out)}
                /\ config.verbose_entry /\ parent[s] # NoSpan =>
                      /\ Len(out) >= 2
                      /\ out[Len(out) - 1].mode = "PreOpen"
                      /\ out[Len(out) - 1].span = parent[s]

\* C17 (amended), the callback below the lock: an on_new_span without
\* deferred_spans writes exactly one banner of the new span, its last line.
\* Without span_retrace that banner is all it writes, but for the PreOpen
\* line of the span's parent before it when verbose_entry is on and there is
\* a parent.  With span_retrace it writes before it the banners of the
\* span's ancestors beyond the common prefix with the span in focus, and the
\* PreOpen line with verbose_entry is the first line and shows the parent of
\* the first of these spans.
NewSpanOutput ==
    \A t \in Threads :
        NewSpanDone(t) =>
            LET out == frame[t].out
                s == frame[t].span
            IN  /\ ~config.deferred_spans
                /\ BannersOf(out, s) = {Len(out)}
                /\ ~config.span_retrace =>
                      out = (IF config.verbose_entry /\ parent[s] # NoSpan
                             THEN <<Unit(parent[s], "PreOpen", FALSE, FALSE)>>
                             ELSE <<>>)
                            \o <<Unit(s, "Open", config.verbose_entry, TRUE)>>
                /\ config.span_retrace =>
                      /\ BannerSpans(out)
                           = SuffixBeyondCommonPrefix(frame[t].old_path,
                                                      scope_path(s))
                      /\ \A i \in 1..Len(out) :
                            \/ IsBanner(out[i])
                            \/ /\ out[i].mode = "PreOpen"
                               /\ i = 1
                               /\ config.verbose_entry
                               /\ out[1].span = parent[out[2].span]

\* C17 (amended), the callback above the lock: on_new_span stores a Data
\* with written = not deferred_spans and writes nothing before it takes the
\* lock; with deferred_spans it returns there, without the lock and with
\* current_span as it was.
NewSpanStores ==
    \A t \in Threads :
        NewSpanCalled(t) =>
            /\ hasData'[created']
            /\ written'[created'] = ~config.deferred_spans
            /\ sink' = sink
            /\ current_span' = current_span
            /\ lock' = lock
            /\ config.deferred_spans => frame' = frame /\ is_empty' = is_empty
            /\ ~config.deferred_spans =>
                  frame'[t].pc = "wait" /\ frame'[t].span = created'

\* C17 (amended): on_new_span stores a Data with written = not
\* deferred_spans.  With deferred_spans it writes nothing and leaves
\* current_span unchanged.  Without it, it writes exactly one banner of the
\* new span, as its last line: without span_retrace preceded only by the
\* PreOpen line of the span's parent when verbose_entry is on, with
\* span_retrace preceded by the banners of the ancestors beyond the common
\* prefix with the span in focus, the PreOpen line of verbose_entry being
\* that of the parent of the first of them.
C17_NewSpanOutput == []NewSpanOutput /\ [][NewSpanStores]_vars

\* C17 witness: with span_retrace and verbose_entry, an on_new_span has
\* written the banner of the parent of the new span, which was not in focus,
\* and then the banner of the new span.
C17_Witness ==
    \E t \in Threads :
        /\ NewSpanDone(t)
        /\ config.span_retrace
        /\ config.verbose_entry
        /\ Len(frame[t].out) = 2
        /\ frame[t].out[1].span = parent[frame[t].span]
        /\ IsBanner(frame[t].out[1])
        /\ frame[t].out[2].span = frame[t].span

\* The number of event lines of an output.
EventLines(out) == Len(SelectSeq(out, LAMBDA u : u.mode = "Event"))

C19_ElapsedUnits ==
    timestamp # NoTimestamp =>
        LET n == timestamp.n IN
        /\ elapsed.secs < 1 =>
              /\ timestamp.unit = "ms"
              /\ n * NanosPerMilli <= elapsed.nanos
              /\ elapsed.nanos < (n + 1) * NanosPerMilli
        /\ elapsed.secs >= 1 /\ elapsed.secs < 60 =>
              /\ timestamp.unit = "s "
              /\ n = elapsed.secs
        /\ elapsed.secs >= 60 =>
              /\ timestamp.unit = "m "
              /\ n * 60 <= elapsed.secs
              /\ elapsed.secs < (n + 1) * 60

\* C19 witness: one nanosecond short of two minutes is written as 1 minute.
C19_Witness ==
    /\ elapsed = [secs |-> 119, nanos |-> 999999999]
    /\ timestamp = [n |-> 1, unit |-> "m ", width |-> 3]

\* The rendering of one field as the text "value" or "name=value".
Rendered(f) ==
    IF f.name = "message" THEN <<f.value>> ELSE <<f.name, "=", f.value>>

\* The fields l, each as Rendered, the i-th introduced by Lead(i).
RenderedList(l, Lead(_)) ==
    LET From[i \in 1..(Len(l) + 1)] ==
            IF i > Len(l) THEN <<>>
            ELSE Lead(i) \o Rendered(l[i]) \o From[i + 1]
    IN  From[1]

SpanLead(i) == IF i = 1 THEN <<>> ELSE <<", ">>

EventLead(i) == IF i = 1 THEN <<" ">> ELSE <<",", " ">>

\* All the fields have been formatted.
FieldsDone == visited = Len(kvs)

\* C20: every field named "message" is rendered as its bare value wherever
\* it occurs in the list and every other field as name=value, by print_kvs
\* for the fields of a span and by FmtEvent for the fields of an event.
C20_MessageBareEverywhere ==
    FieldsDone =>
        /\ formatter = "print_kvs" => fields_buf = RenderedList(kvs, SpanLead)
        /\ formatter = "FmtEvent" => fields_buf = RenderedList(kvs, EventLead)

\* print_kvs renders a field named "message" that is not the first of the
\* list as message=value: the span fields a = 1, message = 2.
PrintKvsPrefixesLaterMessage ==
    /\ formatter = "print_kvs"
    /\ kvs = <<[name |-> "a", value |-> "1"],
               [name |-> "message", value |-> "2"]>>
    /\ FieldsDone
    /\ fields_buf = <<"a", "=", "1", ", ", "message", "=", "2">>

\* FmtEvent renders every field as the claim says when no field is log
\* metadata or the build is without the feature "tracing-log".
FmtEventMessageBare ==
    /\ formatter = "FmtEvent"
    /\ FieldsDone
    /\ \A i \in DOMAIN kvs : ~(tracing_log /\ IsLogField(kvs[i].name))
    => fields_buf = RenderedList(kvs, EventLead)

\* print_kvs renders the fields as the claim says when no field after the
\* first is named "message".
PrintKvsFirstMessageBare ==
    /\ formatter = "print_kvs"
    /\ FieldsDone
    /\ \A i \in DOMAIN kvs : i > 1 => kvs[i].name # "message"
    => fields_buf = RenderedList(kvs, SpanLead)

\* The sink failed under the last callback that panicked.
SinkFailed == unwound.cause = "sink"

\* C21: when a write to the sink fails during a flush, the callback panics
\* (the failure reaches the caller of the callback as a fatal error), the
\* write is not made again and nothing more of that callback is written:
\* the callback has unwound, its guard and the lock are released, and the
\* failed unit and the units it had yet to write never reach the sink.
C21_SinkFailureIsFatal ==
    SinkFailed =>
        /\ poisoned
        /\ lock = NoThread
        /\ sink = <<>>
        /\ \A t \in Threads :
              /\ frame[t].pc \in {"idle", "wait"}
              /\ frame[t].ops = <<>>
              /\ frame[t].out = <<>>
        /\ is_empty[unwound.thread] \/ frame[unwound.thread].pc = "wait"

\* C21 witness: the sink failed under the second write of a callback that
\* had two more units to write.
C21_Witness ==
    /\ SinkFailed
    /\ Len(unwound.frame.out) = 1
    /\ Len(unwound.frame.ops) = 2
    /\ frame[unwound.thread] = IdleFrame
    /\ is_empty[unwound.thread]

\* C22: no callback fails because a span it visits has no Data: the span is
\* taken for not written, in write_retrace_span, write_span_info and
\* write_timestamp alike, and the callback completes.
C22_MissingDataTolerated == unwound.cause # "data"

\* A reconciliation took a span without Data for not written, went on to
\* its Open banner, and write_span_info panicked.
RetraceMissingData ==
    /\ unwound.cause = "data"
    /\ unwound.frame.recon
    /\ unwound.frame.ops # <<>>
    /\ Head(unwound.frame.ops).mode = "Open"
    /\ Head(unwound.frame.ops).mark = Head(unwound.frame.ops).span

\* An event in a span without Data: write_timestamp panicked.
EventMissingData ==
    /\ unwound.cause = "data"
    /\ unwound.frame.kind = "event"
    /\ ~unwound.frame.recon
    /\ Head(unwound.frame.ops).mode = "Event"

\* The callback of t is an event callback that reconciles to its span.
ReconcilingEvent(t) == EventIn(t) /\ frame[t].recon

\* C23: within one event callback that reconciles to span N, the banners of
\* the reconciled spans, which are a suffix of the root path of N in path
\* order (each ancestor before its descendants), are all written before the
\* event line, which is the last line of the callback; and when the callback
\* returns every span on the root path of N has written = true.
C23_BannersBeforeEvent ==
    \A t \in Threads :
        ReconcilingEvent(t) =>
            LET out == frame[t].out
                path == scope_path(frame[t].span)
            IN  /\ \A i \in 1..(Len(out) - 1) : out[i].mode # "Event"
                /\ \E k \in 0..Len(path) :
                      IsPrefix(BannerSpans(out), SubSeq(path, k + 1, Len(path)))
                /\ Done(t) =>
                      /\ out # <<>>
                      /\ out[Len(out)].mode = "Event"
                      /\ \E k \in 0..Len(path) :
                            BannerSpans(out) = SubSeq(path, k + 1, Len(path))
                      /\ \A i \in 1..Len(path) : written[path[i]]

\* C23 witness: with deferred_spans, an event in a span at depth 1 has
\* written the first banners of the span and of its parent, then the event
\* line, and both spans are marked written.
C23_Witness ==
    \E t \in Threads :
        /\ ReconcilingEvent(t)
        /\ Done(t)
        /\ config.deferred_spans
        /\ Len(frame[t].out) = 3
        /\ BannerSpans(frame[t].out)
              = <<parent[frame[t].span], frame[t].span>>
        /\ frame[t].out[1].mode = "Open"
        /\ frame[t].out[3].mode = "Event"
        /\ written[frame[t].span] /\ written[parent[frame[t].span]]

\* A callback of t was turned away by is_recursive only while t was inside
\* a callback, and a thread outside every callback that issues a callback
\* is never turned away, whoever holds the Mutex.
DroppedOnlyWhenNested ==
    \A t \in Threads :
        /\ frame[t].nested => frame[t].pc = "run"
        /\ frame[t].pc = "idle" /\ frame'[t] # frame[t] =>
              frame'[t].pc = "wait" /\ ~frame'[t].nested

\* A callback that found the Mutex held by another thread waits, and leaves
\* the wait only by taking the Mutex, with all its output still to write.
BlockedThenRenders ==
    \A t \in Threads :
        frame[t].pc = "wait" /\ frame[t].blocked =>
            \/ frame'[t] = frame[t]
            \/ /\ lock = NoThread
               /\ lock' = t
               /\ frame'[t].pc = "run"
               /\ frame'[t].ops # <<>> \/ frame[t].kind = "close"

\* C24: a callback is dropped only when it is issued on a thread that is
\* itself inside a layer callback; a callback issued on another thread
\* while some thread holds the render-state lock is never dropped: it waits
\* for the lock and then renders its output.
C24_BlockedNeverDropped ==
    [][DroppedOnlyWhenNested /\ BlockedThenRenders]_vars

\* The thread-local guard alone: what C24 says of dropped callbacks.
ThreadLocalGuard == [][DroppedOnlyWhenNested]_vars

\* A callback that waited for the Mutex either takes it or, the holder
\* having panicked, panics itself at bufs.lock().unwrap().
BlockedThenRendersOrPanics ==
    [][\A t \in Threads :
          frame[t].pc = "wait" /\ frame[t].blocked =>
              \/ frame'[t] = frame[t]
              \/ lock = NoThread /\ lock' = t /\ frame'[t].pc = "run"
              \/ /\ poisoned
                 /\ unwound' = Unwound(t, "lock")
                 /\ frame'[t] = IdleFrame]_vars

\* A callback that waited for the Mutex while another thread held it
\* panicked on the poisoned Mutex and wrote nothing.
BlockedCallbackPanicked ==
    /\ unwound.cause = "lock"
    /\ unwound.frame.blocked
    /\ unwound.frame.kind = "event"
    /\ unwound.frame.out = <<>>

\* A callback that waited for the Mutex while another thread held it has
\* written its output.
BlockedCallbackRendered ==
    \E t \in Threads :
        /\ Done(t)
        /\ frame[t].blocked
        /\ frame[t].out # <<>>

\* The thread is outside every callback and its flag is free.
GuardFree(t) == frame[t].pc = "idle" => is_empty[t] /\ ~frame[t].nested

\* A callback issued by a thread that is outside every callback gets its
\* guard: it goes on to the lock (or, a deferred on_new_span, returns with
\* the flag free).
TopLevelProcessed(t) ==
    frame[t].pc = "idle" /\ frame'[t] # frame[t] =>
        /\ frame'[t].pc = "wait"
        /\ ~is_empty'[t]

\* C25: after any top-level callback returns, normally, by an early return
\* (deferred on_new_span, suppressed on_close) or by a panic, the recursion
\* flag of the thread is free again, and the next top-level callback on the
\* thread gets its guard and is not dropped.
C25_GuardReleased ==
    /\ [](\A t \in Threads : GuardFree(t))
    /\ [][\A t \in Threads : TopLevelProcessed(t)]_vars

\* C25 witness: a callback panicked below the lock, and the next callback on
\* the same thread has got its guard.
C25_Witness ==
    /\ unwound.cause \in {"sink", "data"}
    /\ unwound.thread # NoThread
    /\ frame[unwound.thread].pc = "wait"
    /\ ~frame[unwound.thread].nested

\* After a deferred on_new_span and a suppressed on_close the next callback
\* has got its guard.
EarlyReturnsThenProcessed ==
    /\ config.deferred_spans
    /\ created = 1
    /\ live = {}
    /\ frame[1].pc = "wait"
    /\ frame[1].kind = "event"

\* The reconciliation of the holder of the Mutex is at span s: its next
\* write starts with the mem::replace on the Data of s.
ReconciliationMarks(s) ==
    /\ lock # NoThread
    /\ frame[lock].pc = "run"
    /\ frame[lock].recon
    /\ frame[lock].ops # <<>>
    /\ Head(frame[lock].ops).mark = s

\* The written flag of s goes from false to true.
Flipped(s) == hasData[s] /\ hasData'[s] /\ ~written[s] /\ written'[s]

\* C26: the written flag of a span never changes from true to false; it
\* changes from false to true only inside the reconciliation of
\* write_retrace_span, while the render-state lock is held; and no other
\* field of the Data of a span (start, kvs) changes after its creation.
C26_WrittenMonotonic ==
    [][\A s \in Spans :
          hasData[s] /\ hasData'[s] =>
              /\ written[s] => written'[s]
              /\ Flipped(s) => ReconciliationMarks(s)
              /\ data'[s] = data[s]]_vars

\* C26 witness: a reconciliation has flipped the flag of a deferred span
\* from false to true; its start and kvs are as Data::new made them.
C26_Witness ==
    \E t \in Threads :
        /\ ReconcilingEvent(t)
        /\ lock = t
        /\ frame[t].out # <<>>
        /\ config.deferred_spans
        /\ LET s == frame[t].out[1].span IN
              /\ frame[t].out[1].mode = "Open"
              /\ hasData[s]
              /\ written[s]
              /\ data[s] = DataNew(s)
              /\ data[s].kvs # <<>>

\* The proper ancestors of a span.
Ancestors(s) ==
    {scope_path(s)[i] : i \in 1..(Len(scope_path(s)) - 1)}

\* The Data of the span says the span was printed.
WrittenFlag(s) == hasData[s] /\ written[s]

\* C27: with deferred_spans enabled, whenever the render-state lock is
\* free, every live span whose written flag is true has written = true on
\* all of its ancestors.
C27_WrittenUnderWritten ==
    config.deferred_spans /\ lock = NoThread =>
        \A s \in live :
            WrittenFlag(s) => \A a \in Ancestors(s) : WrittenFlag(a)

\* The same while a callback holds the lock: the reconciliation marks each
\* ancestor before its descendants.
WrittenUnderWrittenAlways ==
    config.deferred_spans =>
        \A s \in live :
            WrittenFlag(s) => \A a \in Ancestors(s) : WrittenFlag(a)

\* C27 witness: with deferred_spans the lock is free and a span at depth 2
\* is written, as are its two ancestors, next to a span not yet written.
C27_Witness ==
    /\ config.deferred_spans
    /\ lock = NoThread
    /\ ~poisoned
    /\ \E s \in live :
          /\ WrittenFlag(s)
          /\ Cardinality(Ancestors(s)) = 2
          /\ \A a \in Ancestors(s) : WrittenFlag(a)

Shortcut(t) ==
    /\ frame[t].pc = "run"
    /\ frame[t].recon
    /\ frame[t].old = frame[t].span

UnitDone == text_pc = "idle"

\* C29: whenever the render-state lock is released after a callback that
\* did not fail, that is after the last of its units was flushed,
\* current_buf and indent_buf are both empty, and what was flushed is the
\* rendering of that unit alone: no text of one unit leaks into the next.
C29_BuffersEmptyBetweenUnits ==
    UnitDone =>
        /\ current_buf = <<>>
        /\ indent_buf = <<>>
        /\ unit # NoUnit /\ layout.wraparound # 0 =>
              writer = indent_current(unit.content, <<>>, unit.indent, layout,
                                      unit.style).current_buf

\* C29 witness: a unit of two lines was flushed at a depth where the
\* wraparound adds its line, and both buffers are empty again.
C29_Witness ==
    /\ UnitDone
    /\ layout.indent_lines
    /\ layout.wraparound = 2
    /\ unit.indent = 1
    /\ unit.style.mode = "Close"
    /\ Len(unit.content) > 0
    /\ Len(writer) > Len(unit.content)
    /\ current_buf = <<>>
    /\ indent_buf = <<>>

\* A failed callback leaves the text of its unit in current_buf.
FailedFlushKeepsText ==
    /\ text_pc = "panicked"
    /\ layout.wraparound # 0
    /\ current_buf # <<>>

\* The callback of t is an event with no current span, or an event while
\* span_retrace and deferred_spans are both off.
PlainEvent(t) ==
    /\ frame[t].kind = "event"
    /\ \/ frame[t].span = NoSpan
       \/ ~config.span_retrace /\ ~config.deferred_spans

\* What a plain event has written: nothing yet, or the event line alone.
PlainEventOutput(t) ==
    frame[t].pc = "run" =>
        /\ frame[t].out =
              IF Done(t)
              THEN <<Unit(frame[t].span, "Event", FALSE, FALSE)>> ELSE <<>>
        /\ sink = frame[t].out
        /\ current_span = frame[t].old

\* A step of a plain event leaves current_span and the written flag of every
\* span alone.
PlainEventStep(t) ==
    frame'[t] # frame[t] /\ (PlainEvent(t) \/ PlainEvent(t)') =>
        /\ current_span' = current_span
        /\ \A s \in Spans :
              hasData[s] /\ hasData'[s] => written'[s] = written[s]

\* C30: an event with no current span, and any event when both span_retrace
\* and deferred_spans are off, leaves current_span and every written flag
\* unchanged and writes exactly one unit, the event line, to the sink.
C30_PlainEventFrame ==
    /\ [](\A t \in Threads : PlainEvent(t) => PlainEventOutput(t))
    /\ [][\A t \in Threads : PlainEventStep(t)]_vars

\* C30 witness: with both options off, an event in a span other than
\* current_span has written its line; current_span is as it was.
C30_Witness ==
    \E t \in Threads :
        /\ PlainEvent(t)
        /\ Done(t)
        /\ frame[t].span # NoSpan
        /\ current_span # NoSpan
        /\ current_span # frame[t].span
        /\ frame[t].out = <<Unit(frame[t].span, "Event", FALSE, FALSE)>>

\* The callback of t is an on_close that assigns nothing to current_span:
\* the close of a span without a parent, or a close that deferred_spans
\* suppresses.
CloseKeepingFocus(t) ==
    /\ frame[t].pc = "run"
    /\ frame[t].kind = "close"
    /\ parent[frame[t].span] = NoSpan \/ CloseSuppressed(frame[t].span)

\* The callback of t closes a root span that current_span names.
ClosesRootInFocus(t) ==
    /\ CloseKeepingFocus(t)
    /\ parent[frame[t].span] = NoSpan
    /\ frame[t].old = frame[t].span

\* C31: on_close of a span without a parent, and an on_close that is
\* suppressed in deferred mode, leave current_span unchanged; after the
\* close of a root span that was in focus, current_span therefore still
\* holds the id of the closed span, which no longer resolves.
C31_RootCloseKeepsFocus ==
    /\ [](\A t \in Threads :
             CloseKeepingFocus(t) => current_span = frame[t].old)
    /\ [][\A t \in Threads :
             ClosesRootInFocus(t) /\ frame'[t].pc = "idle" =>
                 /\ current_span' = frame[t].span
                 /\ frame[t].span \notin live']_vars

\* C31 witness: the Close banner of a root span in focus is written and
\* current_span still names the span.
C31_Witness ==
    \E t \in Threads :
        /\ ClosesRootInFocus(t)
        /\ Done(t)
        /\ HasClose(frame[t].out, frame[t].span)
        /\ current_span = frame[t].span

\* A root span in focus was closed and removed: current_span is stale.
StaleFocus ==
    /\ current_span # NoSpan
    /\ current_span \notin live
    /\ ~poisoned
    /\ \A t \in Threads : frame[t].pc = "idle"

\* Path a is a proper prefix of path b.
IsProperPrefix(a, b) == IsPrefix(a, b) /\ Len(a) < Len(b)

\* The callback of t reconciles to a span N that is a proper ancestor of the
\* live span P that current_span named.
ReconcilesToAncestor(t) ==
    /\ frame[t].pc = "run"
    /\ frame[t].recon
    /\ frame[t].old # NoSpan
    /\ frame[t].old \in live
    /\ IsProperPrefix(scope_path(frame[t].span), scope_path(frame[t].old))

\* C32: when the new span N is a proper ancestor of the live previously
\* emitted span P (path(N) is a proper prefix of path(P)), DifferenceIter
\* yields nothing, the reconciliation emits no banner and no parent line,
\* only the line of the event that triggered it follows, and current_span
\* is set to N.
C32_AncestorEmitsNothing ==
    /\ \A p \in live : \A n \in live :
          IsProperPrefix(scope_path(n), scope_path(p)) =>
              DifferenceIter(scope_path(p), scope_path(n)) = <<>>
    /\ \A t \in Threads :
          ReconcilesToAncestor(t) =>
              /\ \A i \in 1..Len(frame[t].out) : frame[t].out[i].mode = "Event"
              /\ \A i \in 1..Len(frame[t].ops) : frame[t].ops[i].mode = "Event"
              /\ Len(frame[t].out) + Len(frame[t].ops) = 1
              /\ current_span = frame[t].span

\* C32 witness: focus was on a span at depth 2, an event in its grandparent
\* has written its line alone, and focus is on the grandparent.
C32_Witness ==
    \E t \in Threads :
        /\ ReconcilesToAncestor(t)
        /\ Done(t)
        /\ Len(scope_path(frame[t].old)) = 3
        /\ Len(scope_path(frame[t].span)) = 1
        /\ frame[t].out = <<Unit(frame[t].span, "Event", FALSE, FALSE)>>
        /\ current_span = frame[t].span

\* What a callback writes and is still to write, as (span, mode, verbose)
\* lines in order.
AllLines(t) ==
    [i \in 1..(Len(frame[t].out) + Len(frame[t].ops)) |->
        LET u == IF i <= Len(frame[t].out) THEN frame[t].out[i]
                 ELSE frame[t].ops[i - Len(frame[t].out)]
        IN  [span |-> u.span, mode |-> u.mode, verbose |-> u.verbose]]

\* The callback of t runs write_retrace_span on a span that is not the one
\* in focus.
Reconciles(t) ==
    /\ frame[t].pc = "run"
    /\ frame[t].recon

\* C33: in one reconciliation at most one PreOpen line is written, it is
\* the first line and names the parent of the first span of the suffix;
\* only that first span, right after the parent line, is rendered with
\* verbose = true, and every later span of the reconciliation is rendered
\* non-verbose with no parent line of its own.
C33_OnePreOpenPerReconciliation ==
    \A t \in Threads :
        Reconciles(t) =>
            LET all == AllLines(t)
                suffix == DifferenceIter(frame[t].old_path,
                                         scope_path(frame[t].span))
            IN  /\ Cardinality({i \in 1..Len(all) : all[i].mode = "PreOpen"}) <= 1
                /\ \A i \in 1..Len(all) :
                      all[i].mode = "PreOpen" =>
                          /\ i = 1
                          /\ Len(all) >= 2
                          /\ all[2].span = Head(suffix)
                          /\ all[1].span = parent[Head(suffix)]
                          /\ IsBanner(all[2]) /\ all[2].verbose
                /\ \A i \in 1..Len(all) :
                      all[i].verbose => /\ i = 2
                                        /\ all[1].mode = "PreOpen"
                /\ BannerSpans(all) = suffix

\* C33 witness: a reconciliation of two spans under the span in focus has
\* written the parent line, the verbose banner of the first span and the
\* plain banner of the second.
C33_Witness ==
    \E t \in Threads :
        /\ Reconciles(t)
        /\ Done(t)
        /\ Len(AllLines(t)) >= 3
        /\ AllLines(t)[1].mode = "PreOpen"
        /\ IsBanner(AllLines(t)[2]) /\ AllLines(t)[2].verbose
        /\ IsBanner(AllLines(t)[3]) /\ ~AllLines(t)[3].verbose
        /\ parent[AllLines(t)[3].span] = AllLines(t)[2].span

\* The unit being rendered as indent_block draws it at the given level in
\* the style of the layout, the wraparound line left aside.
DrawnAtLevel(level) ==
    LET block == IF layout.indent_lines THEN Append(unit.content, NewLine)
                 ELSE unit.content
        ls == lines(block)
        indent_str == Repeat(Space, level * layout.indent_amount)
    IN  IF layout.indent_lines
        THEN indent_block_with_lines(ls, level, layout.indent_amount,
                                     layout.prefix, unit.style)
        ELSE IF ls = <<>> THEN <<>>
        ELSE PushLines(<<ls[1]>>, layout.prefix \o <<Space>> \o indent_str)
             \o PushLines(Tail(ls), layout.prefix \o <<Space>> \o indent_str
                                    \o <<Space, Space>>)

\* The unit being rendered with the wraparound line indent_current puts
\* before or after it, drawn at the given level.
DrawnWithWrapLine(level) ==
    (IF layout.indent_lines /\ unit.style.mode \in {"Close", "PostClose"}
     THEN WrapMarker(unit.indent, layout, LINE_OPEN) ELSE <<>>)
    \o DrawnAtLevel(level)
    \o (IF layout.indent_lines /\ unit.style.mode \in {"PreOpen", "Open"}
        THEN WrapMarker(unit.indent, layout, LINE_CLOSE) ELSE <<>>)

\* The PreOpen or PostClose line of a parent at depth unit.indent was
\* indented.
ParentLineIndented ==
    /\ text_pc = "indented"
    /\ layout.wraparound >= 1
    /\ unit.style.mode \in {"PreOpen", "PostClose"}

\* The effective level of the banner of the child of the span of the unit
\* being rendered: the child is one level deeper.
ChildLevel == (unit.indent + 1) % layout.wraparound

\* C34 (as claimed): the PreOpen or PostClose line of a parent is drawn at
\* the effective indentation of the banner of the child being entered or
\* left, whatever the depth, the wraparound and the indentation style.
C34_ParentLineAtChildLevel ==
    ParentLineIndented => current_buf = DrawnWithWrapLine(ChildLevel)

\* What the code does: in the box-drawing style the parent line is drawn one
\* level below the effective level of the parent, which is the level of
\* the child unless the child wraps around; in the whitespace style it is
\* drawn at the level of the parent itself.
C34_ParentLineAsDrawn ==
    ParentLineIndented =>
        current_buf = DrawnWithWrapLine(IF layout.indent_lines
                                        THEN EffectiveDepth + 1
                                        ELSE EffectiveDepth)

\* A parent line in the whitespace style that has fewer spaces than the
\* banner of the child.
ParentLineShallower ==
    /\ ParentLineIndented
    /\ ~layout.indent_lines
    /\ unit.content # <<>>
    /\ layout.indent_amount >= 1
    /\ ChildLevel = EffectiveDepth + 1
    /\ current_buf # DrawnWithWrapLine(ChildLevel)

\* A parent line in the box-drawing style whose child wraps around to level
\* 0 while the parent line is drawn at level wraparound.
ParentLineBeyondWrap ==
    /\ ParentLineIndented
    /\ layout.indent_lines
    /\ layout.indent_amount >= 1
    /\ ChildLevel = 0
    /\ current_buf = DrawnWithWrapLine(layout.wraparound)
    /\ current_buf # DrawnWithWrapLine(ChildLevel)

\* A Retrace banner was indented in the box-drawing style at a depth where
\* the indentation wraps.
RetraceAtWrap ==
    /\ text_pc = "indented"
    /\ layout.indent_lines
    /\ layout.wraparound >= 1
    /\ unit.style.mode = "Retrace"
    /\ Crossing

\* The unit being rendered as indent_current renders it in the given mode.
RenderedAs(mode) ==
    indent_current(unit.content, <<>>, unit.indent, layout,
                   SpanMode(mode, unit.style.verbose)).current_buf

\* C35 (as claimed): a span shown again in Retrace mode at a depth d > 0
\* with (d+1) mod W = 0 in the box-drawing style is followed by the same
\* wraparound line as when it is shown in Open mode.
C35_RetraceHasWrapLine ==
    RetraceAtWrap =>
        /\ current_buf = RenderedAs("Open")
        /\ SubSeq(current_buf, Len(current_buf) - Len(WrapLine(LINE_CLOSE)) + 1,
                  Len(current_buf)) = WrapLine(LINE_CLOSE)

\* What the code does: the Retrace banner is the Open banner without its
\* wraparound line.
C35_RetraceLacksWrapLine ==
    RetraceAtWrap =>
        /\ RenderedAs("Open") = current_buf \o WrapLine(LINE_CLOSE)
        /\ current_buf = Unwrapped(EffectiveDepth)

\* A Retrace banner of one line at depth 1 under a wraparound of 2: the Open
\* banner of the same span has the wraparound line, the Retrace banner ends
\* with the banner itself.
RetraceWithoutWrapLine ==
    /\ RetraceAtWrap
    /\ unit.indent = 1
    /\ layout.wraparound = 2
    /\ Len(lines(current_buf)) = 1
    /\ Len(lines(RenderedAs("Open"))) = 2

\* The depth of the span of the unit being rendered, the root span being at
\* depth 0; the unit is in a span.
UnitDepth == unit.scope - 1

\* The unit being rendered was indented with a wraparound other than 0.
UnitIndented == text_pc = "indented" /\ layout.wraparound >= 1

EventBelowItsSpan ==
    /\ UnitIndented
    /\ unit.style.mode = "Event"
    /\ unit.scope = 2
    /\ layout.indent_lines
    /\ layout.indent_amount = 2
    /\ layout.wraparound = 3
    /\ layout.prefix = <<>>
    /\ unit.content = <<"x">>
    /\ current_buf = <<Space, Space, LINE_BRANCH, LINE_HORIZ, "x", NewLine>>

\* indent_block_with_lines: the unsigned subtractions it performs, as pairs
\* <<minuend, subtrahend>>: "indent_spaces - indent_amount" before the
\* branch, "indent_amount - 1" in the verbose Open, Retrace and Close
\* branches and in the Event branch.  None is reached with no line or with
\* indent_spaces = 0.
Subtractions(ls, indent, indent_amount, style) ==
    IF ls = <<>> \/ indent * indent_amount = 0 THEN {}
    ELSE {<<indent * indent_amount, indent_amount>>}
         \union (IF style.mode \in {"Open", "Retrace", "Close"} /\ style.verbose
                 THEN {<<indent_amount, 1>>} ELSE {})
         \union (IF style.mode = "Event" THEN {<<indent_amount, 1>>} ELSE {})

\* The subtractions of the rendering of the unit being indented: the
\* whitespace style has none.
UnitSubtractions ==
    IF layout.indent_lines
    THEN Subtractions(lines(Append(unit.content, NewLine)),
                      IF unit.style.mode \in {"PreOpen", "PostClose"}
                      THEN EffectiveDepth + 1 ELSE EffectiveDepth,
                      layout.indent_amount, unit.style)
    ELSE {}

\* indent_current panicked at "indent % config.wraparound".
RemainderPanicked == text_pc = "panicked" /\ layout.wraparound = 0

\* C37 (as claimed): for every indent_amount >= 0, every wraparound >= 0
\* and every depth, the rendering of a unit takes no remainder by zero and
\* no unsigned subtraction goes below zero.
C37_NoArithmeticPanic ==
    /\ ~RemainderPanicked
    /\ text_pc = "indented" => \A p \in UnitSubtractions : p[1] >= p[2]

\* What the code does: with a wraparound other than 0 no subtraction goes
\* below zero, and with a wraparound of 0 no unit is ever indented.
C37_SafeUnlessWraparoundZero ==
    /\ text_pc = "indented" =>
          /\ layout.wraparound # 0
          /\ \A p \in UnitSubtractions : p[1] >= p[2]
    /\ text_pc = "formatted" /\ layout.wraparound = 0 =>
          ENABLED RemainderByZero /\ ~ENABLED IndentCurrent

\* A banner at depth 0 in the whitespace style under a wraparound of 0: the
\* remainder panicked with the formatted text still in current_buf.
RemainderByZeroAtRoot ==
    /\ RemainderPanicked
    /\ ~layout.indent_lines
    /\ unit.indent = 0
    /\ unit.style.mode = "Open"
    /\ current_buf = unit.content

\* A verbose banner and an event were indented in the box-drawing style at
\* a level >= 1 with an indent width of 1: "indent_amount - 1" is 0.
SubtractionToZero ==
    /\ text_pc = "indented"
    /\ layout.indent_amount = 1
    /\ <<1, 1>> \in UnitSubtractions

\* The last callback that panicked did so because its write to the sink
\* failed.
SinkFailedLast == unwound.cause = "sink"

\* C38 (as claimed): after a sink write failure in one callback, a later
\* callback on the same layer, on any thread, still acquires the render
\* state and renders: the callback that comes next does not fail at the
\* lock.
C38_RendersAfterSinkFailure ==
    [][SinkFailedLast => unwound'.cause # "lock"]_vars

\* What the code does: the panic of the failed write poisons the Mutex for
\* good, the lock is free and nobody renders, and the next callback to fail
\* fails at bufs.lock().unwrap().
C38_PoisonedForGood ==
    /\ [](poisoned =>
            /\ lock = NoThread
            /\ \A t \in Threads : frame[t].pc # "run")
    /\ [][poisoned => poisoned']_vars
    /\ [][SinkFailedLast /\ unwound' # unwound => unwound'.cause = "lock"]_vars

\* A callback issued on another thread after the sink failed panicked at
\* the lock with nothing written.
LaterCallbackPanicked ==
    /\ poisoned
    /\ unwound.cause = "lock"
    /\ unwound.frame.out = <<>>
    /\ ~unwound.frame.blocked

\* Two threads that may both issue a callback now, one of which would have
\* it turned away by the recursion guard and the other not.
IssuerMatters ==
    \E t1 \in Threads : \E t2 \in Threads :
        /\ Running(t1) /\ Running(t2)
        /\ is_recursive(t1) /\ ~is_recursive(t2)

\* C39 (as claimed): what the layer writes for a sequence of callbacks and
\* an order of lock acquisitions does not depend on the threads that issue
\* the callbacks.  With deferred_spans on_new_span takes no lock, so it has
\* to have the same effect on every thread that can issue it: the span gets
\* its Data, which the banner of a later event in the span is written from.
C39_IssuingThreadIrrelevant ==
    config.deferred_spans =>
        /\ ~IssuerMatters
        /\ \A s \in live : ~Creating(s) => hasData[s]

\* With deferred_spans, the first event in a root span whose on_new_span ran
\* on a thread outside every callback has written the Open banner and the
\* event line.
DeferredEventRendered ==
    \E t \in Threads :
        /\ config.deferred_spans
        /\ Done(t)
        /\ frame[t].kind = "event"
        /\ frame[t].span # NoSpan
        /\ parent[frame[t].span] = NoSpan
        /\ frame[t].out = <<Unit(frame[t].span, "Open", FALSE, TRUE),
                            Unit(frame[t].span, "Event", FALSE, FALSE)>>

\* With deferred_spans, the first event in a root span whose on_new_span ran
\* on a thread inside another callback has written nothing: the banner
\* panicked for want of Data.
DeferredEventPanicked ==
    /\ config.deferred_spans
    /\ unwound.cause = "data"
    /\ unwound.frame.kind = "event"
    /\ unwound.frame.span # NoSpan
    /\ unwound.frame.out = <<>>
    /\ Head(unwound.frame.ops).mode = "Open"

\* What holds: the recursion guard turns a callback away exactly on a thread
\* that is inside a callback of the layer; a callback issued on any other
\* thread gets its guard.
C39_TurnedAwayOnlyInsideCallback ==
    \A t \in Threads : ~is_recursive(t) <=> frame[t].pc # "idle"

\* ------------------------------------------------------------- termination

\* One thread issues the callbacks of up to MaxFairSpans spans.
NextFair == Step(1, MaxFairSpans)

\* A callback is synchronous code on a running thread: the thread goes on
\* to take the free Mutex or to panic on the poisoned one, to make its next
\* write or to panic for want of Data, and to return.  Whether a write
\* fails is up to the sink.
Fairness ==
    /\ WF_vars(Acquire(1))
    /\ WF_vars(LockPoisoned(1))
    /\ WF_vars(Write(1))
    /\ WF_vars(MissingData(1))
    /\ WF_vars(Release(1))

SpecFair == Init /\ [][NextFair]_vars /\ Fairness

\* The callback of t is in flight: it has its guard and waits for the lock
\* or holds it.
InFlight(t) == frame[t].pc # "idle"

\* The callback of t is over: the lock and the recursion flag are released.
Returned(t) == frame[t].pc = "idle" /\ lock # t /\ is_empty[t]

\* C40: every callback terminates.  A reconciliation yields at most
\* |path(N)| spans, DifferenceIter consuming one span of path(N) for each
\* it compares; every write of a callback leaves one write fewer to make;
\* and a callback in flight whose sink writes all return, with or without
\* an error, ends with the lock and the recursion flag released.
C40_CallbackTerminates ==
    /\ [](\A t \in Threads :
            /\ \A p \in live :
                  Len(DifferenceIter(frame[t].old_path, scope_path(p)))
                      <= Len(scope_path(p))
            /\ frame[t].pc = "run" /\ frame[t].recon =>
                  Len(BannerSpans(AllLines(t)))
                      <= Len(scope_path(frame[t].span)))
    /\ [][\A t \in Threads :
            frame[t].pc = "run" /\ frame'[t].pc = "run"
            /\ frame'[t].ops # frame[t].ops =>
                frame'[t].ops = Tail(frame[t].ops)]_vars
    /\ \A t \in {1} : InFlight(t) ~> Returned(t)

\* C40 witness: an event in a span at depth 1, whose path of two spans was
\* written by reconciliation, has returned: nobody holds the lock, the sink
\* took what was written and the flag of the thread is free again.
C40_Witness ==
    /\ Returned(1)
    /\ lock = NoThread
    /\ ~poisoned
    /\ lastEvent # NoSpan
    /\ parent[lastEvent] # NoSpan
    /\ config.deferred_spans
    /\ opened[lastEvent] /\ opened[parent[lastEvent]]
    /\ sink = <<>>

====
